---------------------------- MODULE Spec2Model ----------------------------
(***************************************************************************)
(* Model of the reactive provider layer of solid-ts-starter: the storage   *)
(* bridge (src/src/lib/storage.ts), the locale provider, the colour-scheme *)
(* provider and the theme provider.                                        *)
(*                                                                         *)
(* JavaScript values are tagged records.  A JavaScript string is the       *)
(* sequence of its characters, so that concatenation, JSON encoding and    *)
(* JSON decoding are computed and not assumed.                             *)
(***************************************************************************)
EXTENDS Integers, Sequences, FiniteSets, TLC

VARIABLES
  \* ---- storage bridge (storage.ts)
  storage,         \* the web storage: key -> Null (getItem gives null) or Str
  constructed,     \* a persistent value exists
  value,           \* the signal's in-memory value
  defaultValue,    \* the defaultValue argument of the construction
  options,         \* the serializer pair of the construction: "json" or "raw"
  effectPending,   \* the write effect is queued and has not run yet
  readThrew,       \* storage.getItem threw at the construction
  interfered,      \* the storage was changed behind the value (remove, other writer)
  removed,         \* the remover deleted the key and nothing has written it since
  lastOp           \* the operation that produced this state

storageVars == <<storage, constructed, value, defaultValue, options,
                 effectPending, readThrew, interfered, removed, lastOp>>

VARIABLES
  \* ---- locale provider (locale.tsx, src/unnamed/part_004)
  rawDictionary,   \* the raw tree dictionary given to createDictionary
  separator,       \* the separator argument of createDictionary
  dictionary,      \* what dictionary() returns: undefined or a flat dictionary
  translateCall,   \* the last translate(key, params) call: its arguments and outcome
  localeOp         \* the operation that produced this state

localeVars == <<rawDictionary, separator, dictionary, translateCall, localeOp>>

VARIABLES
  \* ---- colour-scheme provider (color-scheme.tsx, src/unnamed/part_003:133-188)
  browserScheme,   \* the browser's preference: "light", "dark" or "none"
  propColorScheme, \* props.colorScheme, the override
  propDefault,     \* props.defaultColorScheme
  colorScheme,     \* the signal holding the detected scheme
  phase,           \* "none", "rendered" (onMount not yet run), "mounted", "disposed"
  pendingEvents,   \* change events dispatched to the attached listeners, not yet handled
  lastEvent,       \* the last change event a listener received, NoEvent if none
  lastMatched,     \* the last change event received with matches = true, NoEvent if none
  colorOp          \* the operation that produced this state

colorVars == <<browserScheme, propColorScheme, propDefault, colorScheme, phase,
              pendingEvents, lastEvent, lastMatched, colorOp>>

VARIABLES
  \* ---- the hooks and the contexts they read (useContext)
  contexts,        \* context name -> the value of the nearest provider, or undefined
  hookCall,        \* the last hook call of the component: hook and outcome
  hookOp           \* the operation that produced this state

hookVars == <<contexts, hookCall, hookOp>>

VARIABLES
  \* ---- mergeStyles (theme.tsx:43-54)
  stylesList,      \* the array of Styles handed to mergeStyles
  mergedStyles,    \* its result
  themeOp          \* the operation that produced this state

themeVars == <<stylesList, mergedStyles, themeOp>>

VARIABLES
  \* ---- useStyles (theme.tsx:142-158)
  theme,           \* props.theme of the enclosing ThemeProvider, or undefined
  defaultStyles,   \* the defaultStyles argument of useStyles, or undefined
  styleClasses,    \* the argument of the last call of the styling function
  styled,          \* the string the last call returned
  memo,            \* the value the memo of useStyles holds
  previousTheme,   \* the theme before the last change, null before the first
  stylesOp         \* the operation that produced this state

stylesVars == <<theme, defaultStyles, styleClasses, styled, memo, previousTheme, stylesOp>>

VARIABLES
  \* ---- normalizeClasses (theme.tsx:79-105 and theme.tsx:273-303)
  classesInput,    \* the Classes argument
  normalized,      \* normalizeClasses(classesInput), first version
  normalized2,     \* normalizeClasses(classesInput), second version
  renormalized,    \* normalizeClasses(normalized.join(' ')), first version
  renormalized2,   \* the same, second version
  classesOp        \* the operation that produced this state

classesVars == <<classesInput, normalized, normalized2, renormalized,
                 renormalized2, classesOp>>

VARIABLES
  \* ---- asynchronous locale provider (src/unnamed/part_004:197-232)
  language,        \* the language signal
  resource,        \* the dictionary resource: value, error, current promise
  requests,        \* the language of every fetch started so far, in order
  inflight,        \* the fetches that have not settled: indices into requests
  settled,         \* the fetches that have settled, each with its outcome
  resourceOp       \* the operation that produced this state

resourceVars == <<language, resource, requests, inflight, settled, resourceOp>>

VARIABLES
  \* ---- app state (AppState.tsx:76-105), on top of the storage bridge
  lastAssigned     \* the field and the value of the last setter call

appVars == <<lastAssigned>>

VARIABLES
  \* ---- ConfigStorage (src/unnamed/part_007:55-90)
  configSignal,    \* storage(): the persisted configuration, or undefined
  configStored,    \* the text localStorage holds under the key, null when absent
  providers,       \* field -> the value of the provider's signal
  beforeRead,      \* the providers' values when the read effect last started
  effectQueue,     \* the effects waiting to run, in order
  configOp         \* the operation that produced this state

configVars == <<configSignal, configStored, providers, beforeRead, effectQueue, configOp>>

VARIABLES
  \* ---- the application's fetchers (AppState.tsx:22-44, part_007:26-47)
  fetchVariant,    \* "AppState" or "config": which of the two sources is running
  imports,         \* the dynamic imports started: <<kind, identifier>>, in order
  importing,       \* the imports that have not settled yet
  dictionaryRes,   \* the dictionary resource
  themeRes,        \* the theme resource
  fetched,         \* the outcomes of the fetcher calls that have settled
  rendered,        \* what translate('hello') and styles('content') last gave
  fetchOp          \* the operation that produced this state

fetchVars == <<fetchVariant, imports, importing, dictionaryRes, themeRes, fetched,
               rendered, fetchOp>>

vars == <<storageVars, localeVars, colorVars, hookVars, themeVars,
    stylesVars, classesVars, resourceVars, appVars, configVars, fetchVars>>

\* what an operation of one component leaves alone: the other components
StorageFrame == UNCHANGED <<localeVars, colorVars, hookVars, themeVars,
    stylesVars, classesVars, resourceVars, appVars, configVars, fetchVars>>
LocaleFrame == UNCHANGED <<storageVars, colorVars, hookVars, themeVars,
    stylesVars, classesVars, resourceVars, appVars, configVars, fetchVars>>
ColorFrame == UNCHANGED <<storageVars, localeVars, hookVars, themeVars,
    stylesVars, classesVars, resourceVars, appVars, configVars, fetchVars>>
HookFrame == UNCHANGED <<storageVars, localeVars, colorVars, themeVars,
    stylesVars, classesVars, resourceVars, appVars, configVars, fetchVars>>
ThemeFrame == UNCHANGED <<storageVars, localeVars, colorVars, hookVars,
    stylesVars, classesVars, resourceVars, appVars, configVars, fetchVars>>
StylesFrame == UNCHANGED <<storageVars, localeVars, colorVars, hookVars,
    themeVars, classesVars, resourceVars, appVars, configVars, fetchVars>>
ClassesFrame == UNCHANGED <<storageVars, localeVars, colorVars, hookVars,
    themeVars, stylesVars, resourceVars, appVars, configVars, fetchVars>>
ResourceFrame == UNCHANGED <<storageVars, localeVars, colorVars, hookVars,
    themeVars, stylesVars, classesVars, appVars, configVars, fetchVars>>
AppFrame == UNCHANGED <<localeVars, colorVars, hookVars, themeVars,
    stylesVars, classesVars, resourceVars, configVars, fetchVars>>
ConfigFrame == UNCHANGED <<storageVars, localeVars, colorVars, hookVars,
    themeVars, stylesVars, classesVars, resourceVars, appVars, fetchVars>>
FetchFrame == UNCHANGED <<storageVars, localeVars, colorVars, hookVars,
    themeVars, stylesVars, classesVars, resourceVars, appVars, configVars>>

-----------------------------------------------------------------------------
(* JavaScript values *)

Undefined == [t |-> "undefined"]
Null      == [t |-> "null"]
Bool(b)   == [t |-> "bool", b |-> b]
Num(n)    == [t |-> "num", n |-> n]
Str(s)    == [t |-> "str", s |-> s]
Arr(xs)   == [t |-> "arr", items |-> xs]
\* an object: its own enumerable properties, in insertion order
Obj(es)   == [t |-> "obj", entries |-> es]

IsNullish(v) == v.t \in {"undefined", "null"}

\* ToBoolean of a string-or-null: null and the empty string are falsy
Truthy(v) ==
  CASE v.t = "str" -> v.s # <<>>
    [] v.t = "bool" -> v.b
    [] v.t = "num" -> v.n # 0
    [] v.t \in {"undefined", "null"} -> FALSE
    [] OTHER -> TRUE

\* the outcome of a call: a returned value, or a thrown error
Return(v) == [threw |-> FALSE, val |-> v]
Throw(e)  == [threw |-> TRUE, val |-> [t |-> "error", message |-> e]]

-----------------------------------------------------------------------------
(* JSON.stringify and JSON.parse, the default serializer pair              *)
(* (storage.ts:15-24 and storage.ts:228-229).  Numbers are the naturals,   *)
(* string escapes are \" and \\, white space is the space character.       *)

DigitChars == <<"0", "1", "2", "3", "4", "5", "6", "7", "8", "9">>

IsDigit(c) == \E d \in 1..Len(DigitChars) : DigitChars[d] = c

DigitValue(c) == (CHOOSE d \in 1..Len(DigitChars) : DigitChars[d] = c) - 1

RECURSIVE NumberText(_)
NumberText(n) ==
  IF n < Len(DigitChars) THEN <<DigitChars[n + 1]>>
  ELSE NumberText(n \div Len(DigitChars)) \o <<DigitChars[(n % Len(DigitChars)) + 1]>>

RECURSIVE EscapeChars(_)
EscapeChars(s) ==
  IF s = <<>> THEN <<>>
  ELSE (IF Head(s) \in {"\"", "\\"} THEN <<"\\", Head(s)>> ELSE <<Head(s)>>)
       \o EscapeChars(Tail(s))

QuoteText(s) == <<"\"">> \o EscapeChars(s) \o <<"\"">>

NullText == <<"n", "u", "l", "l">>
TrueText == <<"t", "r", "u", "e">>
FalseText == <<"f", "a", "l", "s", "e">>

RECURSIVE JsonText(_), JsonItems(_), JsonMembers(_, _)
\* the JSON text of a value other than undefined
JsonText(v) ==
  CASE v.t = "null" -> NullText
    [] v.t = "bool" -> IF v.b THEN TrueText ELSE FalseText
    [] v.t = "num" -> NumberText(v.n)
    [] v.t = "str" -> QuoteText(v.s)
    [] v.t = "arr" -> <<"[">> \o JsonItems(v.items) \o <<"]">>
    [] v.t = "obj" -> <<"{">> \o JsonMembers(v.entries, TRUE) \o <<"}">>

\* an undefined array item is written as null
JsonItems(xs) ==
  IF xs = <<>> THEN <<>>
  ELSE (IF Head(xs).t = "undefined" THEN NullText ELSE JsonText(Head(xs)))
       \o (IF Len(xs) > 1 THEN <<",">> ELSE <<>>)
       \o JsonItems(Tail(xs))

\* a property whose value is undefined is left out
JsonMembers(es, first) ==
  IF es = <<>> THEN <<>>
  ELSE IF Head(es)[2].t = "undefined" THEN JsonMembers(Tail(es), first)
  ELSE (IF first THEN <<>> ELSE <<",">>)
       \o QuoteText(Head(es)[1]) \o <<":">> \o JsonText(Head(es)[2])
       \o JsonMembers(Tail(es), FALSE)

\* JSON.stringify(undefined) is undefined, not a string
JsonStringify(v) == IF v.t = "undefined" THEN Undefined ELSE Str(JsonText(v))

ParseFail == [ok |-> FALSE, val |-> Undefined, next |-> 0]
ParseOk(v, n) == [ok |-> TRUE, val |-> v, next |-> n]

RECURSIVE SkipWs(_, _)
SkipWs(text, i) ==
  IF i <= Len(text) /\ text[i] = " " THEN SkipWs(text, i + 1) ELSE i

Matches(text, i, lit) ==
  /\ i + Len(lit) - 1 <= Len(text)
  /\ SubSeq(text, i, i + Len(lit) - 1) = lit

\* the characters after an opening quote, up to the closing one
RECURSIVE ParseString(_, _, _)
ParseString(text, i, acc) ==
  IF i > Len(text) THEN ParseFail
  ELSE IF text[i] = "\"" THEN ParseOk(Str(acc), i + 1)
  ELSE IF text[i] = "\\" THEN
    IF i + 1 <= Len(text) /\ text[i + 1] \in {"\"", "\\"}
    THEN ParseString(text, i + 2, Append(acc, text[i + 1]))
    ELSE ParseFail
  ELSE ParseString(text, i + 1, Append(acc, text[i]))

RECURSIVE ParseDigits(_, _, _)
ParseDigits(text, i, acc) ==
  IF i <= Len(text) /\ IsDigit(text[i])
  THEN ParseDigits(text, i + 1, acc * Len(DigitChars) + DigitValue(text[i]))
  ELSE ParseOk(Num(acc), i)

\* obj[k] = v on an ordinary object: an existing key keeps its place
SetEntry(es, k, v) ==
  IF \E i \in 1..Len(es) : es[i][1] = k
  THEN [i \in 1..Len(es) |-> IF es[i][1] = k THEN <<k, v>> ELSE es[i]]
  ELSE Append(es, <<k, v>>)

RECURSIVE ParseValue(_, _), ParseElements(_, _, _), ParseMembers(_, _, _)
ParseValue(text, i0) ==
  LET i == SkipWs(text, i0) IN
  IF i > Len(text) THEN ParseFail
  ELSE IF Matches(text, i, NullText) THEN ParseOk(Null, i + Len(NullText))
  ELSE IF Matches(text, i, TrueText) THEN ParseOk(Bool(TRUE), i + Len(TrueText))
  ELSE IF Matches(text, i, FalseText) THEN ParseOk(Bool(FALSE), i + Len(FalseText))
  ELSE IF text[i] = "\"" THEN ParseString(text, i + 1, <<>>)
  ELSE IF text[i] = "0" THEN ParseOk(Num(0), i + 1)
  ELSE IF IsDigit(text[i]) THEN ParseDigits(text, i, 0)
  ELSE IF text[i] = "[" THEN
    LET j == SkipWs(text, i + 1) IN
    IF j <= Len(text) /\ text[j] = "]" THEN ParseOk(Arr(<<>>), j + 1)
    ELSE ParseElements(text, j, <<>>)
  ELSE IF text[i] = "{" THEN
    LET j == SkipWs(text, i + 1) IN
    IF j <= Len(text) /\ text[j] = "}" THEN ParseOk(Obj(<<>>), j + 1)
    ELSE ParseMembers(text, j, <<>>)
  ELSE ParseFail

ParseElements(text, i, acc) ==
  LET r == ParseValue(text, i) IN
  IF ~r.ok THEN ParseFail
  ELSE LET j == SkipWs(text, r.next) IN
    IF j > Len(text) THEN ParseFail
    ELSE IF text[j] = "," THEN ParseElements(text, j + 1, Append(acc, r.val))
    ELSE IF text[j] = "]" THEN ParseOk(Arr(Append(acc, r.val)), j + 1)
    ELSE ParseFail

ParseMembers(text, i0, acc) ==
  LET i == SkipWs(text, i0) IN
  IF i > Len(text) \/ text[i] # "\"" THEN ParseFail
  ELSE LET k == ParseString(text, i + 1, <<>>) IN
    IF ~k.ok THEN ParseFail
    ELSE LET c == SkipWs(text, k.next) IN
      IF c > Len(text) \/ text[c] # ":" THEN ParseFail
      ELSE LET r == ParseValue(text, c + 1) IN
        IF ~r.ok THEN ParseFail
        ELSE LET j == SkipWs(text, r.next) IN
          IF j > Len(text) THEN ParseFail
          ELSE IF text[j] = ","
            THEN ParseMembers(text, j + 1, SetEntry(acc, k.val.s, r.val))
          ELSE IF text[j] = "}"
            THEN ParseOk(Obj(SetEntry(acc, k.val.s, r.val)), j + 1)
          ELSE ParseFail

\* JSON.parse: the value, or a SyntaxError
JsonParse(text) ==
  LET r == ParseValue(text, 1) IN
  IF r.ok /\ SkipWs(text, r.next) > Len(text) THEN Return(r.val)
  ELSE Throw("SyntaxError")

-----------------------------------------------------------------------------
(* The storage bridge: storage.ts *)

\* numbers of the value domain are 0 and MaxNum
MaxNum == 12

\* AppState.tsx:77 persists the record under 'config'
localStorageKey == "config"
otherKey == "other"
StorageKeys == {localStorageKey, otherKey}

LanguageKey == <<"l", "a", "n", "g", "u", "a", "g", "e">>
ThemeKey == <<"t", "h", "e", "m", "e">>
ColorSchemeKey == <<"c", "o", "l", "o", "r", "S", "c", "h", "e", "m", "e">>
Eo == <<"e", "o">>
Vo == <<"v", "o">>
DefaultThemeName == <<"d", "e", "f", "a", "u", "l", "t">>

\* values that survive JSON: no undefined anywhere
JsonSafeValues ==
  { Null, Bool(FALSE), Num(0), Num(MaxNum),
    Str(<<>>), Str(Eo), Str(<<"\"", "\\">>),
    Arr(<<>>), Arr(<<Num(1), Str(<<"a">>)>>),
    Obj(<<>>),
    Obj(<< <<LanguageKey, Str(Vo)>>, <<ThemeKey, Str(DefaultThemeName)>> >>) }

\* values JSON does not keep: undefined, and holders of undefined
\* (AppState.tsx:77-81 gives { colorScheme: undefined, language: 'eo', ... })
JsonUnsafeValues ==
  { Undefined, Arr(<<Undefined>>),
    Obj(<< <<ColorSchemeKey, Undefined>>, <<LanguageKey, Str(Eo)>> >>) }

\* the values of a string signal kept with the caller's own serializer
RawValues == { Str(<<>>), Str(Eo), Str(<<"1">>) }

\* options.serialize / options.deserialize: the JSON default, or a caller's
\* pair that stores a string value as it is
OptionKinds == {"json", "raw"}

ValuesOf(opt) ==
  IF opt = "json" THEN JsonSafeValues \cup JsonUnsafeValues ELSE RawValues

DefaultsOf(opt) ==
  IF opt = "json" THEN {Undefined, Str(Eo), Obj(<<>>)} ELSE {Str(Eo), Str(<<>>)}

\* texts found in the storage that this program did not write
ForeignTexts ==
  { <<>>, <<"u", "n", "d", "e", "f", "i", "n", "e", "d">>, <<"{">>,
    <<"1">>, <<" ", "[", " ", "0", " ", "]">>, <<"\"", "e", "o", "\"">>,
    <<"{", "\"", "a", "\"", ":", "1", ",", "\"", "a", "\"", ":", "n", "u", "l", "l", "}">> }

\* options?.serialize ?? defaultSerializer
Serialize(opt, v) == IF opt = "json" THEN JsonStringify(v) ELSE v

\* options?.deserialize ?? defaultDeserializer
Deserialize(opt, text) == IF opt = "json" THEN JsonParse(text) ELSE Return(Str(text))

\* Storage.setItem converts its value argument to a string
SetItemText(v) ==
  IF v.t = "undefined" THEN Str(<<"u", "n", "d", "e", "f", "i", "n", "e", "d">>) ELSE v

\* storage.getItem(key): null for a missing key; throws when the read fails
GetItem(st, k, readFails) ==
  IF readFails THEN Throw("SecurityError") ELSE Return(st[k])

\* a reader that hands back the stored text without deserializing it
getInitialValue_noDeserialize(st, k, dflt, opt, readFails) ==
  LET got == GetItem(st, k, readFails) IN
  IF got.threw \/ ~Truthy(got.val) THEN Return(dflt) ELSE Return(got.val)

\* storage.ts:36-48
getInitialValue(st, k, dflt, opt, readFails) ==
  LET got == GetItem(st, k, readFails)
      body == IF got.threw THEN got
              ELSE IF Truthy(got.val) THEN Deserialize(opt, got.val.s)
              ELSE Return(dflt)
  IN IF body.threw THEN Return(dflt) ELSE body

\* a write effect with a dirty-check: it writes only a missing key
storageEffect_onlyWhenMissing(st, k, opt, v) ==
  IF st[k] = Null THEN [st EXCEPT ![k] = SetItemText(Serialize(opt, v))] ELSE st

\* a write effect that leaves a missing key missing
storageEffect_keepAbsent(st, k, opt, v) ==
  IF st[k] = Null THEN st ELSE [st EXCEPT ![k] = SetItemText(Serialize(opt, v))]

\* the write effect: storage.setItem(key, serialize(value()))
storageEffect(st, k, opt, v) ==
  [st EXCEPT ![k] = SetItemText(Serialize(opt, v))]

\* a remover that empties the whole storage (storage.clear())
removeItem_clear(st, k) == [x \in DOMAIN st |-> Null]

\* the remover: storage.removeItem(key)
removeItem(st, k) == [st EXCEPT ![k] = Null]

IsPrimitive(v) == v.t \notin {"arr", "obj"}

\* createStorageSignal / createStorageValue up to the queued write effect
createStorageValue(dflt, opt, readFails) ==
  LET initialValue == getInitialValue(storage, localStorageKey, dflt, opt, readFails) IN
  /\ ~effectPending
  /\ constructed' = ~initialValue.threw
  /\ value' = IF initialValue.threw THEN Undefined ELSE initialValue.val
  /\ effectPending' = ~initialValue.threw
  /\ defaultValue' = dflt
  /\ options' = opt
  /\ readThrew' = readFails
  /\ interfered' = FALSE
  /\ removed' = FALSE
  /\ lastOp' = IF initialValue.threw THEN "constructThrew" ELSE "construct"
  /\ UNCHANGED storage
  /\ StorageFrame

\* the queued write effect runs after the render phase
RunEffect ==
  /\ constructed /\ effectPending
  /\ storage' = storageEffect(storage, localStorageKey, options, value)
  /\ effectPending' = FALSE
  /\ removed' = FALSE
  /\ lastOp' = "effect"
  /\ UNCHANGED <<constructed, value, defaultValue, options, readThrew, interfered>>
  /\ StorageFrame

\* setValue(v): the signal notifies unless v === the current value; the write
\* effect then runs before the setter returns, or stays queued when it has
\* not run yet.  sameRef: v is the very object the signal already holds.
setValue(v, sameRef) ==
  LET changed == v # value \/ (~IsPrimitive(v) /\ ~sameRef) IN
  /\ constructed
  /\ value' = v
  /\ storage' = IF changed /\ ~effectPending
                THEN storageEffect(storage, localStorageKey, options, v)
                ELSE storage
  /\ removed' = (removed /\ ~(changed /\ ~effectPending))
  /\ lastOp' = "set"
  /\ UNCHANGED <<constructed, defaultValue, options, readThrew, effectPending, interfered>>
  /\ StorageFrame

\* the third element of the returned tuple
Remove ==
  /\ constructed
  /\ storage' = removeItem(storage, localStorageKey)
  /\ interfered' = TRUE
  /\ removed' = TRUE
  /\ lastOp' = "remove"
  /\ UNCHANGED <<constructed, value, defaultValue, options, readThrew, effectPending>>
  /\ StorageFrame

\* a bridge that listens to the storage and reads the key again when
\* another writer changes it
ForeignWrite_reread(k, item) ==
  /\ storage[k] # item
  /\ storage' = [storage EXCEPT ![k] = item]
  /\ value' = IF constructed /\ k = localStorageKey
              THEN getInitialValue(storage', k, defaultValue, options, FALSE).val
              ELSE value
  /\ interfered' = (interfered \/ k = localStorageKey)
  /\ removed' = (removed /\ k # localStorageKey)
  /\ lastOp' = "foreign"
  /\ UNCHANGED <<constructed, defaultValue, options, readThrew, effectPending>>
  /\ StorageFrame

\* another writer (other code, the user) changes a key of the web storage
ForeignWrite(k, item) ==
  /\ storage[k] # item
  /\ storage' = [storage EXCEPT ![k] = item]
  /\ interfered' = (interfered \/ k = localStorageKey)
  /\ removed' = (removed /\ k # localStorageKey)
  /\ lastOp' = "foreign"
  /\ UNCHANGED <<constructed, value, defaultValue, options, readThrew, effectPending>>
  /\ StorageFrame

ForeignItems(k) ==
  IF k = localStorageKey THEN {Null} \cup {Str(x) : x \in ForeignTexts}
  ELSE {Null, Str(<<"x">>)}

StorageInit ==
  /\ storage \in {st \in [StorageKeys -> {Null} \cup {Str(x) : x \in ForeignTexts} \cup {Str(<<"x">>)}] :
                    \A k \in StorageKeys : st[k] \in ForeignItems(k)}
  /\ constructed = FALSE
  /\ value = Undefined
  /\ defaultValue = Undefined
  /\ options = "json"
  /\ readThrew = FALSE
  /\ effectPending = FALSE
  /\ interfered = FALSE
  /\ removed = FALSE
  /\ lastOp = "init"

StorageNext ==
  \/ \E opt \in OptionKinds : \E dflt \in DefaultsOf(opt) : \E readFails \in BOOLEAN :
       createStorageValue(dflt, opt, readFails)
  \/ RunEffect
  \/ \E v \in ValuesOf(options) : \E sameRef \in BOOLEAN : setValue(v, sameRef)
  \/ Remove
  \/ \E k \in StorageKeys : \E item \in ForeignItems(k) : ForeignWrite(k, item)

-----------------------------------------------------------------------------
(* The locale provider: createTranslation, createDictionary, useTranslate  *)
(* (src/unnamed/part_004)                                                  *)

\* nesting depth of the raw dictionaries
MaxDepth == 3

KeyA == <<"a">>
KeyB == <<"b">>
KeyAB == <<"a", ".", "b">>
NameKey == <<"n", "a", "m", "e">>
Saluton == <<"s", "a", "l", "u", "t", "o", "n">>
Mondo == <<"m", "o", "n", "d", "o">>
DotSeparator == <<".">>
SlashSeparator == <<"/">>
Separators == {DotSeparator, SlashSeparator}

\* a function value: ({ name }) => `saluton ${name}` of locale.test.tsx:42-46
GreetFn == [t |-> "fn", id |-> "greet"]
\* the function createTranslation wraps around a raw translation
ConstFn(text) == [t |-> "fn", id |-> "const", text |-> text]
\* a function inherited from Object.prototype
BuiltinFn(name) == [t |-> "fn", id |-> "builtin", name |-> name]

ToStringKey == <<"t", "o", "S", "t", "r", "i", "n", "g">>
ValueOfKey == <<"v", "a", "l", "u", "e", "O", "f">>
ConstructorKey == <<"c", "o", "n", "s", "t", "r", "u", "c", "t", "o", "r">>
ProtoKey == <<"_", "_", "p", "r", "o", "t", "o", "_", "_">>
ObjectPrototypeFunctions == {ToStringKey, ValueOfKey, ConstructorKey}
ObjectTag == <<"[", "o", "b", "j", "e", "c", "t", " ", "O", "b", "j", "e", "c", "t", "]">>

\* String(v), as a template literal applies it
ToStringJS(v) ==
  CASE v.t = "str" -> v.s
    [] v.t = "num" -> NumberText(v.n)
    [] v.t = "undefined" -> <<"u", "n", "d", "e", "f", "i", "n", "e", "d">>
    [] v.t = "null" -> NullText
    [] v.t = "bool" -> IF v.b THEN TrueText ELSE FalseText
    [] OTHER -> ObjectTag

HasOwn(obj, k) == \E i \in 1..Len(obj.entries) : obj.entries[i][1] = k

GetOwn(obj, k) ==
  obj.entries[CHOOSE i \in 1..Len(obj.entries) : obj.entries[i][1] = k][2]

\* obj[k] on an ordinary object: own properties, then Object.prototype
GetProperty(obj, k) ==
  IF HasOwn(obj, k) THEN GetOwn(obj, k)
  ELSE IF k \in ObjectPrototypeFunctions THEN BuiltinFn(k)
  ELSE IF k = ProtoKey THEN Obj(<<>>)
  ELSE Undefined

\* f.call(self, params)
CallFunction(f, self, params) ==
  CASE f.id = "const" -> Return(Str(f.text))
    [] f.id = "greet" ->
         IF IsNullish(params) THEN Throw("TypeError")
         ELSE Return(Str(Saluton \o <<" ">> \o ToStringJS(GetProperty(params, NameKey))))
    [] f.id = "builtin" ->
         IF f.name = ToStringKey THEN Return(Str(ObjectTag))
         ELSE IF f.name = ValueOfKey THEN Return(self)
         ELSE Return(IF IsNullish(params) THEN Obj(<<>>) ELSE params)

\* part_004:47-51
createTranslation(translation) ==
  IF translation.t = "fn" THEN translation ELSE ConstFn(ToStringJS(translation))

RECURSIVE FromEntries(_, _)
\* Object.fromEntries: a later pair replaces the value of an earlier equal key
FromEntries(pairs, acc) ==
  IF pairs = <<>> THEN acc
  ELSE FromEntries(Tail(pairs), SetEntry(acc, Head(pairs)[1], Head(pairs)[2]))

\* the recursive call of part_004:70 passes no separator: the default applies
RecursionSeparator(sep) == DotSeparator

\* a normalizer that does not descend into subtrees
createDictionary_shallow(d, sep) ==
  Obj(FromEntries([i \in 1..Len(d.entries) |->
        <<d.entries[i][1], createTranslation(d.entries[i][2])>>], <<>>))

RECURSIVE createDictionary(_, _), FlatEntries(_, _)
\* part_004:61-77
createDictionary(d, sep) == Obj(FromEntries(FlatEntries(d.entries, sep), <<>>))

\* .map(...).flat() over Object.entries(dictionary)
FlatEntries(es, sep) ==
  IF es = <<>> THEN <<>>
  ELSE LET key == Head(es)[1]
           val == Head(es)[2]
           sub == createDictionary(val, RecursionSeparator(sep)).entries
       IN (IF val.t = "obj"
           THEN [i \in 1..Len(sub) |-> <<key \o sep \o sub[i][1], sub[i][2]>>]
           ELSE << <<key, createTranslation(val)>> >>)
          \o FlatEntries(Tail(es), sep)

\* the translator's optional call: dictionary()?.[key]?.(params) ?? key
CallOrKey(dict, f, key, params) ==
  IF IsNullish(f) THEN Return(Str(key))
  ELSE IF f.t # "fn" THEN Throw("TypeError")
  ELSE LET r == CallFunction(f, dict, params) IN
       IF ~r.threw /\ IsNullish(r.val) THEN Return(Str(key)) ELSE r

\* a translator that drops the parameters
translate_noParams(dict, key, params) ==
  IF IsNullish(dict) THEN Return(Str(key))
  ELSE CallOrKey(dict, GetProperty(dict, key), key, Undefined)

\* part_004:132-136 and 326-330
translate(dict, key, params) ==
  IF IsNullish(dict) THEN Return(Str(key))
  ELSE CallOrKey(dict, GetProperty(dict, key), key, params)

\* raw translations: strings, a number, a function
RawLeaves == {Str(<<"x">>), Num(MaxNum), GreetFn}
SiblingLeaves == {Str(<<"y">>)}
RawKeys == {KeyA, KeyB, KeyAB}

RECURSIVE RawTrees(_)
\* raw values of nesting depth <= d: a leaf, a subtree with one entry, or a
\* subtree with a leaf beside a subtree (in either order)
RawTrees(d) ==
  IF d = 0 THEN RawLeaves
  ELSE LET below == RawTrees(d - 1) IN
    RawLeaves
    \cup {Obj(<<>>)}
    \cup {Obj(<< <<k, t>> >>) : k \in RawKeys, t \in below}
    \cup {Obj(<< <<k[1], t>>, <<k[2], l>> >>) :
            k \in {kk \in RawKeys \X RawKeys : kk[1] # kk[2]},
            t \in below \ RawLeaves, l \in SiblingLeaves}
    \cup {Obj(<< <<k[1], l>>, <<k[2], t>> >>) :
            k \in {kk \in RawKeys \X RawKeys : kk[1] # kk[2]},
            t \in below \ RawLeaves, l \in SiblingLeaves}

RawDictionaries(d) == {t \in RawTrees(d) : t.t = "obj"}

TranslateKeys == {KeyA, KeyAB, KeyA \o <<".">> \o KeyAB, <<>>, ToStringKey, ConstructorKey, ProtoKey}
TranslateParams == {Undefined, Obj(<< <<NameKey, Str(Mondo)>> >>)}

NoCall == [key |-> <<>>, params |-> Undefined, called |-> FALSE, outcome |-> Return(Undefined)]

\* dictionary = createDictionary(raw, separator), as <LocaleProvider dictionary={...}>
\* or the asynchronous provider's normalizeDictionary installs it
LoadDictionary ==
  /\ dictionary' = createDictionary(rawDictionary, separator)
  /\ localeOp' = "load"
  /\ UNCHANGED <<rawDictionary, separator, translateCall>>
  /\ LocaleFrame

\* <LocaleProvider> without a dictionary
ClearDictionary ==
  /\ dictionary # Undefined
  /\ dictionary' = Undefined
  /\ localeOp' = "clear"
  /\ UNCHANGED <<rawDictionary, separator, translateCall>>
  /\ LocaleFrame

\* a consumer calls translate(key, params)
Translate(key, params) ==
  /\ translateCall' = [key |-> key, params |-> params, called |-> TRUE,
                       outcome |-> translate(dictionary, key, params)]
  /\ localeOp' = "translate"
  /\ UNCHANGED <<rawDictionary, separator, dictionary>>
  /\ LocaleFrame

LocaleParked ==
  /\ rawDictionary = Obj(<<>>)
  /\ separator = DotSeparator
  /\ dictionary = Undefined
  /\ translateCall = NoCall
  /\ localeOp = "init"

\* the dictionaries the translator is exercised on
LocaleInit ==
  /\ rawDictionary \in RawDictionaries(1) \cup
       { Obj(<< <<KeyA, Obj(<< <<KeyB, GreetFn>> >>)>>, <<KeyAB, Str(<<"y">>)>> >>),
         Obj(<< <<ToStringKey, Str(<<"x">>)>>, <<KeyA, Str(<<>>)>> >>) }
  /\ separator = DotSeparator
  /\ dictionary = Undefined
  /\ translateCall = NoCall
  /\ localeOp = "init"

\* the inputs of createDictionary
DictionaryInit ==
  /\ rawDictionary \in RawDictionaries(MaxDepth)
  /\ separator \in Separators
  /\ dictionary = Undefined
  /\ translateCall = NoCall
  /\ localeOp = "init"

-----------------------------------------------------------------------------
(* The auto-detecting colour-scheme provider (src/unnamed/part_003:133-188) *)

Light == Str(<<"l", "i", "g", "h", "t">>)
Dark == Str(<<"d", "a", "r", "k">>)

\* part_003:137
colorSchemeList == <<Light, Dark>>

BrowserSchemes == {"light", "dark", "none"}

\* window.matchMedia(`(prefers-color-scheme: ${scheme})`).matches
MediaMatches(browser, scheme) ==
  \/ (browser = "light" /\ scheme = Light)
  \/ (browser = "dark" /\ scheme = Dark)

\* part_003:146-148: the first entry of mediaQueryLists that matches
initialColorScheme(browser) ==
  IF \E i \in 1..Len(colorSchemeList) : MediaMatches(browser, colorSchemeList[i])
  THEN colorSchemeList[CHOOSE i \in 1..Len(colorSchemeList) :
         /\ MediaMatches(browser, colorSchemeList[i])
         /\ \A j \in 1..(i - 1) : ~MediaMatches(browser, colorSchemeList[j])]
  ELSE Undefined

\* a ?? b
Coalesce(a, b) == IF IsNullish(a) THEN b ELSE a

\* an accessor that lets the detected scheme win over the override
ColorSchemeValue_detectedFirst(override, detected, dflt) ==
  Coalesce(Coalesce(detected, override), dflt)

\* part_003:180-181: props.colorScheme ?? colorScheme() ?? props.defaultColorScheme
ColorSchemeValue(override, detected, dflt) ==
  Coalesce(Coalesce(override, detected), dflt)

\* what useColorScheme()() returns in this state
currentColorScheme == ColorSchemeValue(propColorScheme, colorScheme, propDefault)

SchemeProps == {Undefined, Light, Dark, Str(<<>>)}

\* no change event has been received
NoEvent == [scheme |-> Undefined, matches |-> FALSE]

\* listeners that stay attached after onCleanup
Listening_afterCleanup(ph) == ph \in {"mounted", "disposed"}

\* part_003:160-178: the listeners are attached by onMount and removed by
\* onCleanup
Listening(ph) == ph = "mounted"

\* the component function runs: part_003:136-158, 180-187
RenderColorScheme(override, dflt) ==
  /\ phase = "none"
  /\ propColorScheme' = override
  /\ propDefault' = dflt
  /\ colorScheme' = initialColorScheme(browserScheme)
  /\ phase' = "rendered"
  /\ colorOp' = "render"
  /\ UNCHANGED <<browserScheme, pendingEvents, lastEvent, lastMatched>>
  /\ ColorFrame

\* onMount: both listeners are added (part_003:160-168)
MountColorScheme ==
  /\ phase = "rendered"
  /\ phase' = "mounted"
  /\ colorOp' = "mount"
  /\ UNCHANGED <<browserScheme, propColorScheme, propDefault, colorScheme, pendingEvents,
                 lastEvent, lastMatched>>
  /\ ColorFrame

\* the preference changes: every media query whose result flips notifies
\* the listeners attached to it, each with the new value of matches
BrowserChange(new) ==
  /\ pendingEvents = {}
  /\ new # browserScheme
  /\ browserScheme' = new
  /\ pendingEvents' =
       IF Listening(phase)
       THEN {[scheme |-> colorSchemeList[i], matches |-> MediaMatches(new, colorSchemeList[i])] :
               i \in {j \in 1..Len(colorSchemeList) :
                        MediaMatches(new, colorSchemeList[j])
                          # MediaMatches(browserScheme, colorSchemeList[j])}}
       ELSE {}
  /\ colorOp' = "browser"
  /\ UNCHANGED <<propColorScheme, propDefault, colorScheme, phase, lastEvent, lastMatched>>
  /\ ColorFrame

\* a listener that sets its scheme at every notification
handleChange_ignoringMatches(event) ==
  /\ event \in pendingEvents
  /\ pendingEvents' = pendingEvents \ {event}
  /\ colorScheme' = event.scheme
  /\ lastEvent' = event
  /\ lastMatched' = IF event.matches THEN event ELSE lastMatched
  /\ colorOp' = "change"
  /\ UNCHANGED <<browserScheme, propColorScheme, propDefault, phase>>
  /\ ColorFrame

\* part_003:155-156: event.matches && setColorScheme(colorScheme)
handleChange(event) ==
  /\ event \in pendingEvents
  /\ pendingEvents' = pendingEvents \ {event}
  /\ colorScheme' = IF event.matches THEN event.scheme ELSE colorScheme
  /\ lastEvent' = event
  /\ lastMatched' = IF event.matches THEN event ELSE lastMatched
  /\ colorOp' = "change"
  /\ UNCHANGED <<browserScheme, propColorScheme, propDefault, phase>>
  /\ ColorFrame

\* the parent passes another colorScheme prop
SetColorSchemeProp(override) ==
  /\ phase \in {"rendered", "mounted"}
  /\ override # propColorScheme
  /\ propColorScheme' = override
  /\ colorOp' = "prop"
  /\ UNCHANGED <<browserScheme, propDefault, colorScheme, phase, pendingEvents,
                 lastEvent, lastMatched>>
  /\ ColorFrame

\* onCleanup: both listeners are removed (part_003:170-178)
CleanupColorScheme ==
  /\ phase \in {"rendered", "mounted"}
  /\ phase' = "disposed"
  /\ pendingEvents' = {}
  /\ colorOp' = "cleanup"
  /\ UNCHANGED <<browserScheme, propColorScheme, propDefault, colorScheme, lastEvent,
                 lastMatched>>
  /\ ColorFrame

ColorParked ==
  /\ browserScheme = "none"
  /\ propColorScheme = Undefined
  /\ propDefault = Undefined
  /\ colorScheme = Undefined
  /\ phase = "none"
  /\ pendingEvents = {}
  /\ lastEvent = NoEvent
  /\ lastMatched = NoEvent
  /\ colorOp = "init"

ColorInit ==
  /\ browserScheme \in BrowserSchemes
  /\ propColorScheme = Undefined
  /\ propDefault = Undefined
  /\ colorScheme = Undefined
  /\ phase = "none"
  /\ pendingEvents = {}
  /\ lastEvent = NoEvent
  /\ lastMatched = NoEvent
  /\ colorOp = "init"

ColorNext ==
  \/ \E override \in SchemeProps : \E dflt \in SchemeProps : RenderColorScheme(override, dflt)
  \/ MountColorScheme
  \/ \E new \in BrowserSchemes : BrowserChange(new)
  \/ \E event \in pendingEvents : handleChange(event)
  \/ \E override \in SchemeProps : SetColorSchemeProp(override)
  \/ CleanupColorScheme

-----------------------------------------------------------------------------
(* The hooks: each reads its context and throws when no provider encloses  *)
(* the caller (part_003:101-107, part_004:84-136, theme.tsx:112-158)       *)

ColorSchemeContext == "ColorSchemeContext"
LocaleContext == "LocaleContext"
ThemeContext == "ThemeContext"
AppContext == "AppContext"
ContextNames == {ColorSchemeContext, LocaleContext, ThemeContext, AppContext}

\* an accessor: a function that returns the current value
Accessor(v) == [t |-> "accessor", get |-> v]

HelloKey == <<"h", "e", "l", "l", "o">>
HelloNamespace == <<"H", "e", "l", "l", "o">>
ContentClass == <<"c", "o", "n", "t", "e", "n", "t">>

\* what each provider puts in its context
\* part_003:183: <ColorSchemeContext.Provider value={value}>
ColorSchemeContextValues == {Accessor(v) : v \in {Undefined, Light, Dark}}
\* part_004:227: <LocaleContext.Provider value={{ language, dictionary }}>
LocaleContextValues ==
  {[t |-> "object", language |-> Accessor(l), dictionary |-> Accessor(d)] :
     l \in {Undefined, Str(Eo)},
     d \in {Undefined, Obj(<<<<HelloKey, ConstFn(Saluton)>>>>)}}
\* theme.tsx:184: <ThemeContext.Provider value={() => props.theme}>
ThemeContextValues ==
  {Accessor(th) :
     th \in {Undefined,
             Obj(<<<<HelloNamespace, Obj(<<<<ContentClass, Str(<<"x">>)>>>>)>>>>)}}

\* AppState.tsx:86-103, 106: <AppContext.Provider value={state}>
AppContextValues ==
  {[t |-> "object", colorScheme |-> c, language |-> Str(Eo), theme |-> Str(DefaultThemeName)] :
     c \in {Undefined, Dark}}

ProvidedValues(name) ==
  CASE name = ColorSchemeContext -> ColorSchemeContextValues
    [] name = LocaleContext -> LocaleContextValues
    [] name = ThemeContext -> ThemeContextValues
    [] name = AppContext -> AppContextValues

\* the argument of createContext: part_003:86, part_004:79 and theme.tsx:107
\* give none, AppState.tsx:58 gives {}
contextDefault(name) ==
  IF name = AppContext THEN Obj(<<>>) ELSE Undefined

\* useContext(Context): the value of the nearest provider, the default
\* value of the context when there is none
useContext(ctxs, name) ==
  IF ctxs[name] = Undefined THEN contextDefault(name) ELSE ctxs[name]

\* object.field; a TypeError when the object is undefined or null
Member(r, field) ==
  IF r.threw THEN r
  ELSE IF IsNullish(r.val) THEN Throw("TypeError")
  ELSE Return(r.val[field])

\* a hook that hands back whatever useContext returned
useColorScheme_unchecked(ctxs) == Return(useContext(ctxs, ColorSchemeContext))

\* part_003:101-107
useColorScheme(ctxs) ==
  LET context == useContext(ctxs, ColorSchemeContext) IN
  IF ~Truthy(context) THEN Throw("ColorSchemeContext not found")
  ELSE Return(context)

\* part_004:84-90
useLocaleContext(ctxs) ==
  LET context == useContext(ctxs, LocaleContext) IN
  IF ~Truthy(context) THEN Throw("LocaleContext not found")
  ELSE Return(context)

\* part_004:97-99
useLanguage(ctxs) == Member(useLocaleContext(ctxs), "language")

\* part_004:106-108
useDictionary(ctxs) == Member(useLocaleContext(ctxs), "dictionary")

\* part_004:132-136: the translator closes over the dictionary accessor
useTranslate(ctxs) ==
  LET r == useDictionary(ctxs) IN
  IF r.threw THEN r
  ELSE Return([t |-> "fn", id |-> "translate", dictionary |-> r.val])

\* theme.tsx:112-118
useTheme(ctxs) ==
  LET context == useContext(ctxs, ThemeContext) IN
  IF ~Truthy(context) THEN Throw("ThemeContext not found")
  ELSE Return(context)

\* theme.tsx:142-158: the styling function closes over the theme accessor
useStyles(ctxs, namespace) ==
  LET r == useTheme(ctxs) IN
  IF r.threw THEN r
  ELSE Return([t |-> "fn", id |-> "styles", theme |-> r.val, namespace |-> namespace])

\* AppState.tsx:65-71
useAppState(ctxs) ==
  LET context == useContext(ctxs, AppContext) IN
  IF ~Truthy(context) THEN Throw("AppContext not found")
  ELSE Return(context)

Hooks == {"useColorScheme", "useLanguage", "useDictionary", "useTranslate",
          "useTheme", "useStyles", "useAppState"}

CallOf(hook, ctxs) ==
  CASE hook = "useColorScheme" -> useColorScheme(ctxs)
    [] hook = "useLanguage" -> useLanguage(ctxs)
    [] hook = "useDictionary" -> useDictionary(ctxs)
    [] hook = "useTranslate" -> useTranslate(ctxs)
    [] hook = "useTheme" -> useTheme(ctxs)
    [] hook = "useStyles" -> useStyles(ctxs, HelloNamespace)
    [] hook = "useAppState" -> useAppState(ctxs)

NoHookCall == [hook |-> "none", outcome |-> Return(Undefined)]

\* the caller is rendered inside a provider of this context
EnterProvider(name, v) ==
  /\ contexts[name] = Undefined
  /\ contexts' = [contexts EXCEPT ![name] = v]
  /\ hookOp' = "enter"
  /\ UNCHANGED hookCall
  /\ HookFrame

\* the caller is rendered outside the provider of this context
LeaveProvider(name) ==
  /\ contexts[name] # Undefined
  /\ contexts' = [contexts EXCEPT ![name] = Undefined]
  /\ hookOp' = "leave"
  /\ UNCHANGED hookCall
  /\ HookFrame

\* the component calls a hook
CallHook(hook) ==
  /\ hookCall' = [hook |-> hook, outcome |-> CallOf(hook, contexts)]
  /\ hookOp' = "call"
  /\ UNCHANGED contexts
  /\ HookFrame

HookParked ==
  /\ contexts = [name \in ContextNames |-> Undefined]
  /\ hookCall = NoHookCall
  /\ hookOp = "init"

HookInit == HookParked

HookNext ==
  \/ \E name \in ContextNames : \E v \in ProvidedValues(name) : EnterProvider(name, v)
  \/ \E name \in ContextNames : LeaveProvider(name)
  \/ \E hook \in Hooks : CallHook(hook)

-----------------------------------------------------------------------------
(* mergeStyles (theme.tsx:43-54, the same at theme.tsx:234-245) *)

MaxStyles == 2

\* the elements of an array joined by a separator: undefined and null give
\* the empty string (Array.prototype.join)
RECURSIVE Join(_, _)
Join(xs, sep) ==
  IF xs = <<>> THEN <<>>
  ELSE LET head == IF IsNullish(Head(xs)) THEN <<>> ELSE ToStringJS(Head(xs)) IN
       IF Len(xs) = 1 THEN head
       ELSE head \o sep \o Join(Tail(xs), sep)

\* { ...a, ...b }
Spread(a, b) == Obj(FromEntries(b.entries, a.entries))

\* a merge that keeps only the class name of the last map
mergeStep_lastWins(merged, current) == Spread(merged, current)

\* theme.tsx:45-51: the reducer
mergeStep(merged, current) ==
  Spread(merged,
         Obj(FromEntries(
           [i \in 1..Len(current.entries) |->
              <<current.entries[i][1],
                Str(Join(<<GetProperty(merged, current.entries[i][1]),
                           current.entries[i][2]>>, <<" ">>))>>],
           <<>>)))

\* theme.tsx:43-54: styles.reduce(reducer, {})
RECURSIVE Reduce(_, _)
Reduce(styles, merged) ==
  IF styles = <<>> THEN merged
  ELSE Reduce(Tail(styles), mergeStep(merged, Head(styles)))

mergeStyles(styles) == Reduce(styles, Obj(<<>>))

ClassNames == {<<"x">>, <<"y">>, <<"z">>}

\* the Styles maps over the keys a and b
StylesMaps ==
  {Obj(<<>>)}
    \cup {Obj(<<<<k, Str(c)>>>>) : k \in {KeyA, KeyB}, c \in ClassNames}
    \cup {Obj(<<<<KeyA, Str(c)>>, <<KeyB, Str(d)>>>>) : c \in ClassNames, d \in ClassNames}

StylesLists(n) ==
  UNION {[1..m -> StylesMaps] : m \in 0..n}

\* the memo of useStyles evaluates mergeStyles (theme.tsx:144-148)
MergeStyles ==
  /\ themeOp \in {"init", "styles"}
  /\ mergedStyles' = mergeStyles(stylesList)
  /\ themeOp' = "merge"
  /\ UNCHANGED stylesList
  /\ ThemeFrame

\* the default styles or the theme change: the memo is stale
ChangeStyles(list) ==
  /\ themeOp = "merge"
  /\ list # stylesList
  /\ stylesList' = list
  /\ themeOp' = "styles"
  /\ UNCHANGED mergedStyles
  /\ ThemeFrame

ThemeParked ==
  /\ stylesList = <<>>
  /\ mergedStyles = Obj(<<>>)
  /\ themeOp = "init"

ThemeInit ==
  /\ stylesList \in StylesLists(MaxStyles)
  /\ mergedStyles = Obj(<<>>)
  /\ themeOp = "init"

ThemeNext ==
  \/ MergeStyles
  \/ \E list \in StylesLists(1) : ChangeStyles(list)

-----------------------------------------------------------------------------
(* normalizeClasses (theme.tsx:79-105 and theme.tsx:273-303) *)

\* the characters \s matches, as far as the inputs use them
WhiteSpace == {" ", "\t"}

\* the index of the first character at or after i that is not white space
RECURSIVE SkipRun(_, _)
SkipRun(text, i) ==
  IF i <= Len(text) /\ text[i] \in WhiteSpace THEN SkipRun(text, i + 1) ELSE i

\* text.split(/\s+/u): the pieces between the runs of white space, the empty
\* pieces before a leading and after a trailing run included
RECURSIVE SplitFrom(_, _, _, _)
SplitFrom(text, i, piece, pieces) ==
  IF i > Len(text) THEN Append(pieces, piece)
  ELSE IF text[i] \in WhiteSpace
       THEN SplitFrom(text, SkipRun(text, i), <<>>, Append(pieces, piece))
       ELSE SplitFrom(text, i + 1, Append(piece, text[i]), pieces)

Split(text) == SplitFrom(text, 1, <<>>, <<>>)

\* .filter((value) => value) on an array of strings
RECURSIVE FilterNonEmpty(_)
FilterNonEmpty(tokens) ==
  IF tokens = <<>> THEN <<>>
  ELSE (IF Head(tokens) # <<>> THEN <<Head(tokens)>> ELSE <<>>)
         \o FilterNonEmpty(Tail(tokens))

\* a Set that keeps every token
Unique_keepAll(tokens, seen) == seen \o tokens

\* [...new Set(tokens)]: the first occurrence of every token, in order
RECURSIVE Unique(_, _)
Unique(tokens, seen) ==
  IF tokens = <<>> THEN seen
  ELSE Unique(Tail(tokens),
              IF \E i \in 1..Len(seen) : seen[i] = Head(tokens)
              THEN seen ELSE Append(seen, Head(tokens)))

\* Object.entries(classes).filter(([, value]) => value).map(([key]) => key)
RECURSIVE TruthyKeys(_)
TruthyKeys(es) ==
  IF es = <<>> THEN <<>>
  ELSE (IF Truthy(Head(es)[2]) THEN <<Str(Head(es)[1])>> ELSE <<>>)
         \o TruthyKeys(Tail(es))

RECURSIVE normalizeClasses(_), MapNormalize(_)

\* a map step that keeps the string items as they are
MapNormalize_rawStrings(items) ==
  IF items = <<>> THEN <<>>
  ELSE (IF Head(items).t = "str" THEN <<Head(items).s>>
        ELSE normalizeClasses(Head(items)))
         \o MapNormalize(Tail(items))

\* theme.tsx:79-105
normalizeClasses(classes) ==
  IF ~Truthy(classes) THEN <<>>
  ELSE IF classes.t = "str"
       THEN Unique(FilterNonEmpty(Split(classes.s)), <<>>)
  ELSE IF classes.t = "arr"
       THEN Unique(FilterNonEmpty(MapNormalize(classes.items)), <<>>)
  ELSE IF classes.t = "obj"
       THEN normalizeClasses(Arr(TruthyKeys(classes.entries)))
  ELSE <<>>

\* classes.map(normalizeClasses).flat()
MapNormalize(items) ==
  IF items = <<>> THEN <<>>
  ELSE normalizeClasses(Head(items)) \o MapNormalize(Tail(items))

\* theme.tsx:273-303
RECURSIVE normalizeClasses2(_), MapItems2(_)
normalizeClasses2(classes) ==
  IF ~Truthy(classes) THEN <<>>
  ELSE IF classes.t = "arr"
       THEN Unique(FilterNonEmpty(MapItems2(classes.items)), <<>>)
  ELSE IF classes.t = "obj"
       THEN normalizeClasses2(Arr(TruthyKeys(classes.entries)))
  ELSE IF classes.t = "str"
       THEN normalizeClasses2(Arr([i \in 1..Len(Split(classes.s)) |->
                                     Str(Split(classes.s)[i])]))
  ELSE <<>>

\* a map step that does not split the string items
MapItems2_unsplit(items) ==
  IF items = <<>> THEN <<>>
  ELSE (IF Head(items).t \in {"obj", "arr", "null"} THEN normalizeClasses2(Head(items))
        ELSE IF Head(items).t = "str" THEN <<Head(items).s>>
        ELSE <<>>)
         \o MapItems2(Tail(items))

\* theme.tsx:281-286: objects are normalized, strings are split
MapItems2(items) ==
  IF items = <<>> THEN <<>>
  ELSE (IF Head(items).t \in {"obj", "arr", "null"} THEN normalizeClasses2(Head(items))
        ELSE IF Head(items).t = "str" THEN Split(Head(items).s)
        ELSE <<>>)
         \o MapItems2(Tail(items))

-----------------------------------------------------------------------------
(* useStyles (theme.tsx:142-158, the same at theme.tsx:340-356) *)

\* theme()?.[namespace]
ThemeStyles(th, namespace) ==
  IF IsNullish(th) THEN Undefined ELSE GetProperty(th, namespace)

\* .filter((v) => v)
RECURSIVE FilterTruthy(_)
FilterTruthy(xs) ==
  IF xs = <<>> THEN <<>>
  ELSE (IF Truthy(Head(xs)) THEN <<Head(xs)>> ELSE <<>>) \o FilterTruthy(Tail(xs))

\* theme.tsx:144-148: the memo
stylesMemo(dflt, th, namespace) ==
  mergeStyles(FilterTruthy(<<dflt, ThemeStyles(th, namespace)>>))

\* a memo that is computed once and never again
memoAfterChange_stale(cached, dflt, th, namespace) == cached

\* theme.tsx:144: createMemo reads theme(), so a change of the theme runs
\* the computation again
memoAfterChange(cached, dflt, th, namespace) == stylesMemo(dflt, th, namespace)

\* theme.tsx:150-157: the styling function, given the memo's value
styles(merged, classes) ==
  LET names == normalizeClasses(classes) IN
  Join([i \in 1..Len(names) |-> GetProperty(merged, names[i])], <<" ">>)

X1 == <<"x", "1">>
X2 == <<"x", "2">>
Y1 == <<"y", "1">>
D1 == <<"d", "1">>
D2 == <<"d", "2">>
TitleClass == <<"t", "i", "t", "l", "e">>
MissingClass == <<"m", "i", "s", "s", "i", "n", "g">>
OtherNamespace == <<"O", "t", "h", "e", "r">>

Themes ==
  {Undefined,
   Obj(<<<<HelloNamespace, Obj(<<<<ContentClass, Str(X1)>>>>)>>>>),
   Obj(<<<<HelloNamespace, Obj(<<<<ContentClass, Str(X1)>>, <<TitleClass, Str(X2)>>>>)>>>>),
   Obj(<<<<HelloNamespace, Obj(<<<<ContentClass, Str(Y1)>>>>)>>>>),
   Obj(<<<<OtherNamespace, Obj(<<<<ContentClass, Str(X1)>>>>)>>>>)}

DefaultStyles ==
  {Undefined,
   Obj(<<<<ContentClass, Str(D1)>>>>),
   Obj(<<<<ContentClass, Str(D1)>>, <<TitleClass, Str(D2)>>>>)}

StyleClasses ==
  {Undefined,
   Str(ContentClass),
   Str(TitleClass),
   Str(MissingClass),
   Str(ContentClass \o <<" ">> \o TitleClass),
   Str(MissingClass \o <<" ">> \o ContentClass),
   Str(ContentClass \o <<" ">> \o MissingClass \o <<" ">> \o TitleClass),
   Arr(<<Str(ContentClass), Undefined, Str(TitleClass)>>),
   Obj(<<<<ContentClass, Bool(TRUE)>>, <<TitleClass, Bool(FALSE)>>>>)}

\* the component calls the styling function: styles(classes)
CallStyles(classes) ==
  /\ styleClasses' = classes
  /\ styled' = styles(memo, classes)
  /\ stylesOp' = "styles"
  /\ UNCHANGED <<theme, defaultStyles, memo, previousTheme>>
  /\ StylesFrame

\* the provider's theme prop changes
SetTheme(th) ==
  /\ th # theme
  /\ theme' = th
  /\ previousTheme' = theme
  /\ memo' = memoAfterChange(memo, defaultStyles, th, HelloNamespace)
  /\ stylesOp' = "theme"
  /\ UNCHANGED <<defaultStyles, styleClasses, styled>>
  /\ StylesFrame

StylesParked ==
  /\ theme = Undefined
  /\ defaultStyles = Undefined
  /\ styleClasses = Undefined
  /\ styled = <<>>
  /\ memo = Obj(<<>>)
  /\ previousTheme = Null
  /\ stylesOp = "init"

\* useStyles('Hello', defaultStyles) inside <ThemeProvider theme={theme}>
StylesInit ==
  /\ theme \in Themes
  /\ defaultStyles \in DefaultStyles
  /\ styleClasses = Undefined
  /\ styled = <<>>
  /\ memo = stylesMemo(defaultStyles, theme, HelloNamespace)
  /\ previousTheme = Null
  /\ stylesOp = "init"

StylesNext ==
  \/ \E classes \in StyleClasses : CallStyles(classes)
  \/ \E th \in Themes : SetTheme(th)

-----------------------------------------------------------------------------
(* The inputs normalizeClasses is exercised on *)

MaxClassLen == 3

ClassChars == {"a", "b", " ", "\t"}

ClassStrings(n) == UNION {[1..m -> ClassChars] : m \in 0..n}

ABA == <<"a", " ", "b", " ", "a">>

ClassMapKeys == {<<"a">>, <<"b">>, <<"a", " ", "b">>, <<>>}
ClassMapValues == {Bool(TRUE), Bool(FALSE), Undefined}

ClassMaps ==
  {Obj(<<<<k, v>>>>) : k \in ClassMapKeys, v \in ClassMapValues}
    \cup {Obj(<<<<k[1], v>>, <<k[2], w>>>>) :
            k \in {<<<<"a">>, <<"b">>>>, <<<<"b">>, <<"a">>>>},
            v \in ClassMapValues, w \in ClassMapValues}

ClassItems ==
  {Undefined, Str(<<"a">>), Str(<<"b", " ", "a">>), Str(<<>>),
   Obj(<<<<<<"a">>, Bool(TRUE)>>>>),
   Obj(<<<<<<"a">>, Bool(FALSE)>>, <<<<"b">>, Bool(TRUE)>>>>),
   Arr(<<Str(<<"a", "\t", "b">>)>>)}

ClassLists == {Arr(xs) : xs \in UNION {[1..m -> ClassItems] : m \in 0..2}}

ClassesInputs ==
  {Undefined, Str(ABA)}
    \cup {Str(text) : text \in ClassStrings(MaxClassLen)}
    \cup ClassMaps
    \cup ClassLists

\* tokens.join(' ')
JoinTokens(tokens) == Join([i \in 1..Len(tokens) |-> Str(tokens[i])], <<" ">>)

\* normalizeClasses(classes), both versions
NormalizeClasses ==
  /\ classesOp = "init"
  /\ normalized' = normalizeClasses(classesInput)
  /\ normalized2' = normalizeClasses2(classesInput)
  /\ classesOp' = "normalize"
  /\ UNCHANGED <<classesInput, renormalized, renormalized2>>
  /\ ClassesFrame

\* normalizeClasses(normalizeClasses(classes).join(' '))
RenormalizeClasses ==
  /\ classesOp = "normalize"
  /\ renormalized' = normalizeClasses(Str(JoinTokens(normalized)))
  /\ renormalized2' = normalizeClasses2(Str(JoinTokens(normalized2)))
  /\ classesOp' = "renormalize"
  /\ UNCHANGED <<classesInput, normalized, normalized2>>
  /\ ClassesFrame

ClassesParked ==
  /\ classesInput = Undefined
  /\ normalized = <<>>
  /\ normalized2 = <<>>
  /\ renormalized = <<>>
  /\ renormalized2 = <<>>
  /\ classesOp = "init"

ClassesInit ==
  /\ classesInput \in ClassesInputs
  /\ normalized = <<>>
  /\ normalized2 = <<>>
  /\ renormalized = <<>>
  /\ renormalized2 = <<>>
  /\ classesOp = "init"

ClassesNext ==
  \/ NormalizeClasses
  \/ RenormalizeClasses

-----------------------------------------------------------------------------
(* The asynchronous LocaleProvider (src/unnamed/part_004:197-232): the     *)
(* dictionary is a resource driven by the language signal.  A resource     *)
(* remembers the promise of its latest fetch and drops the outcome of any  *)
(* other promise.                                                          *)

MaxFetches == 3

Glidis == <<"g", "l", "i", "d", "i", "s">>
Xx == <<"x", "x">>

\* locale.test.tsx:150-157: const locales = { eo: {...}, vo: {...} }
Locales ==
  Obj(<<<<Eo, Obj(<<<<HelloKey, Str(Saluton)>>>>)>>,
        <<Vo, Obj(<<<<HelloKey, Str(Glidis)>>>>)>>>>)

\* the codes setLanguage is called with; locales has no entry for the last
LanguageCodes == {Str(Eo), Str(Vo), Str(Xx)}

\* fetchDictionary={(language) => locales[language]}
fetchDictionary(code) == GetProperty(Locales, code.s)

\* part_004:208: props.normalizeDictionary ?? createDictionary.
\* Object.entries throws a TypeError for undefined and null
normalizeDictionary(raw) ==
  IF IsNullish(raw) THEN Throw("TypeError")
  ELSE Return(createDictionary(raw, DotSeparator))

\* part_004:210-211: normalizeDictionary(await fetchDictionary(language));
\* the fetch itself may fail
loadDictionary(code, fetchFails) ==
  IF fetchFails THEN Throw("FetchError")
  ELSE normalizeDictionary(fetchDictionary(code))

\* part_004:214-216: initialValue
initialValue(initialDictionary) ==
  IF Truthy(initialDictionary)
  THEN normalizeDictionary(initialDictionary).val
  ELSE Undefined

NoPromise == 0

\* createResource(language, loadDictionary, { initialValue })
NewResource(v) == [value |-> v, error |-> Undefined, pr |-> NoPromise]

\* a resource that forgets its value when a fetch starts
startLoad_clearing(res, p) == [res EXCEPT !.pr = p, !.value = Undefined]

\* the source has a value: the fetcher is called and its promise remembered
startLoad(res, p) == [res EXCEPT !.pr = p]

\* the source is undefined: the resource settles at once with its own value
skipLoad(res) == [res EXCEPT !.pr = NoPromise, !.error = Undefined]

\* a resource that takes the outcome of any promise
isCurrent_any(res, p) == TRUE

\* the promise is the one of the latest fetch
isCurrent(res, p) == res.pr = p

\* the promise p settles with the outcome r
loadEnd(res, p, r) ==
  IF ~isCurrent(res, p) THEN res
  ELSE IF r.threw THEN [res EXCEPT !.pr = NoPromise, !.error = r.val]
  ELSE [value |-> r.val, error |-> Undefined, pr |-> NoPromise]

\* dictionary(): the value, or the error of the latest fetch once it failed
readResource(res) ==
  IF res.error # Undefined /\ res.pr = NoPromise
  THEN [threw |-> TRUE, val |-> res.error]
  ELSE Return(res.value)

\* the component function runs: part_004:204-231
RenderLocaleProvider(initialLanguage, initialDictionary) ==
  /\ resourceOp = "init"
  /\ language' = initialLanguage
  /\ IF IsNullish(initialLanguage)
     THEN /\ resource' = skipLoad(NewResource(initialValue(initialDictionary)))
          /\ UNCHANGED <<requests, inflight>>
     ELSE /\ resource' = startLoad(NewResource(initialValue(initialDictionary)),
                                   Len(requests) + 1)
          /\ requests' = Append(requests, initialLanguage)
          /\ inflight' = inflight \cup {Len(requests) + 1}
  /\ resourceOp' = "render"
  /\ UNCHANGED settled
  /\ ResourceFrame

\* setLanguage(code): the resource follows its source
setLanguage(code) ==
  /\ resourceOp # "init"
  /\ code # language
  /\ language' = code
  /\ IF IsNullish(code)
     THEN /\ resource' = skipLoad(resource)
          /\ UNCHANGED <<requests, inflight>>
     ELSE /\ Len(requests) < MaxFetches
          /\ resource' = startLoad(resource, Len(requests) + 1)
          /\ requests' = Append(requests, code)
          /\ inflight' = inflight \cup {Len(requests) + 1}
  /\ resourceOp' = "language"
  /\ UNCHANGED settled
  /\ ResourceFrame

\* the promise of a fetch settles
SettleFetch(p, fetchFails) ==
  /\ p \in inflight
  /\ inflight' = inflight \ {p}
  /\ resource' = loadEnd(resource, p, loadDictionary(requests[p], fetchFails))
  /\ settled' = settled \cup {<<p, loadDictionary(requests[p], fetchFails)>>}
  /\ resourceOp' = "settle"
  /\ UNCHANGED <<language, requests>>
  /\ ResourceFrame

ResourceParked ==
  /\ language = Undefined
  /\ resource = NewResource(Undefined)
  /\ requests = <<>>
  /\ inflight = {}
  /\ settled = {}
  /\ resourceOp = "init"

ResourceInit == ResourceParked

InitialLanguages == {Undefined, Str(Eo), Str(Vo)}
InitialDictionaries == {Undefined, Obj(<<<<HelloKey, Str(Saluton)>>>>)}

ResourceNext ==
  \/ \E initialLanguage \in InitialLanguages :
       \E initialDictionary \in InitialDictionaries :
         RenderLocaleProvider(initialLanguage, initialDictionary)
  \/ \E code \in LanguageCodes \cup {Undefined} : setLanguage(code)
  \/ \E p \in 1..MaxFetches : \E fetchFails \in BOOLEAN : SettleFetch(p, fetchFails)

-----------------------------------------------------------------------------
(* The app state (AppState.tsx:76-105): a store persisted under 'config'   *)
(* by createLocalStorageStore (storage.ts:87-102), with one setter a field *)

DarkThemeName == <<"d", "a", "r", "k">>

\* AppState.tsx:77-81: the default config
AppDefaultConfig ==
  Obj(<< <<ColorSchemeKey, Undefined>>, <<LanguageKey, Str(Eo)>>,
         <<ThemeKey, Str(DefaultThemeName)>> >>)

AppFields == {ColorSchemeKey, LanguageKey, ThemeKey}

\* the values Settings.tsx assigns: a language code, a theme identifier,
\* a colour scheme or undefined (colorScheme || undefined)
AppFieldValues(field) ==
  CASE field = LanguageKey -> {Str(Eo), Str(Vo)}
    [] field = ThemeKey -> {Str(DefaultThemeName), Str(DarkThemeName)}
    [] field = ColorSchemeKey -> {Undefined, Light, Dark}

\* what localStorage holds under 'config' when the app starts
AppStoredItems ==
  {Null, Str(<<"{">>), Str(NullText),
   JsonStringify(Obj(<< <<LanguageKey, Str(Vo)>> >>)),
   JsonStringify(Obj(<< <<ThemeKey, Str(DarkThemeName)>>, <<ColorSchemeKey, Dark>>,
                        <<LanguageKey, Str(Vo)>> >>))}

\* createStore(initialValue): a store over the object, over {} when there is none
createStore(state) ==
  IF Truthy(state) THEN state ELSE Obj(<<>>)

RECURSIVE WithoutKey(_, _)
WithoutKey(es, k) ==
  IF es = <<>> THEN <<>>
  ELSE (IF Head(es)[1] = k THEN <<>> ELSE <<Head(es)>>) \o WithoutKey(Tail(es), k)

\* a store setter that replaces the record by the patch
mergeStore_replace(store, field, v) == Obj(<<<<field, v>>>>)

\* setConfig({ [field]: v }): the patch is merged into the store; a field
\* set to the value it has is left alone, a field set to undefined is deleted
mergeStore(store, field, v) ==
  IF GetProperty(store, field) = v THEN store
  ELSE IF v = Undefined THEN Obj(WithoutKey(store.entries, field))
  ELSE Obj(SetEntry(store.entries, field, v))

NothingAssigned == [field |-> <<>>, value |-> Undefined]

\* AppState.tsx:77-81 with storage.ts:87-102: the store is created from the
\* persisted record or the default, the write effect is queued
AppStateProvider(readFails) ==
  LET loaded ==
        getInitialValue(storage, localStorageKey, AppDefaultConfig, "json", readFails) IN
  /\ ~constructed
  /\ constructed' = TRUE
  /\ value' = createStore(loaded.val)
  /\ effectPending' = TRUE
  /\ defaultValue' = AppDefaultConfig
  /\ options' = "json"
  /\ readThrew' = readFails
  /\ lastOp' = "construct"
  /\ UNCHANGED <<storage, interfered, removed, lastAssigned>>
  /\ AppFrame

\* the write effect runs for the first time, after the render phase
RunStoreEffect ==
  /\ constructed /\ effectPending
  /\ storage' = storageEffect(storage, localStorageKey, options, value)
  /\ effectPending' = FALSE
  /\ lastOp' = "effect"
  /\ UNCHANGED <<constructed, value, defaultValue, options, readThrew, interfered, removed,
                 lastAssigned>>
  /\ AppFrame

\* AppState.tsx:87-104: app.colorScheme = v, app.language = v, app.theme = v
setConfig(field, v) ==
  /\ constructed
  /\ value' = mergeStore(value, field, v)
  /\ storage' = IF value' # value /\ ~effectPending
                THEN storageEffect(storage, localStorageKey, options, value')
                ELSE storage
  /\ lastAssigned' = [field |-> field, value |-> v]
  /\ lastOp' = "setConfig"
  /\ UNCHANGED <<constructed, defaultValue, options, readThrew, effectPending, interfered, removed>>
  /\ AppFrame

AppParked == lastAssigned = NothingAssigned

AppStateInit ==
  /\ storage \in {st \in [StorageKeys -> AppStoredItems] : st[otherKey] = Null}
  /\ constructed = FALSE
  /\ value = Undefined
  /\ defaultValue = Undefined
  /\ options = "json"
  /\ readThrew = FALSE
  /\ effectPending = FALSE
  /\ interfered = FALSE
  /\ removed = FALSE
  /\ lastOp = "init"
  /\ lastAssigned = NothingAssigned

AppStateNext ==
  \/ \E readFails \in BOOLEAN : AppStateProvider(readFails)
  \/ RunStoreEffect
  \/ \E field \in AppFields : \E v \in AppFieldValues(field) : setConfig(field, v)

-----------------------------------------------------------------------------
(* ConfigStorage (src/unnamed/part_007:55-90): the providers own the       *)
(* colour scheme, the language and the theme; one effect reads the         *)
(* persisted configuration into them, another writes them back             *)

\* part_007:10-16: the values ConfigProvider gives the providers
ConfigDefaults ==
  [field \in AppFields |->
     CASE field = ColorSchemeKey -> Dark
       [] field = LanguageKey -> Str(Eo)
       [] field = ThemeKey -> Str(DefaultThemeName)]

\* what an earlier session may have persisted for a field
PersistedFieldValues(field) ==
  CASE field = ColorSchemeKey -> {Undefined, Null, Light}
    [] field = LanguageKey -> {Undefined, Str(Vo)}
    [] field = ThemeKey -> {Undefined, Str(DarkThemeName)}

ConfigRecord(c, l, t) ==
  Obj(<< <<ColorSchemeKey, c>>, <<LanguageKey, l>>, <<ThemeKey, t>> >>)

PersistedConfigs ==
  {Undefined}
    \cup {ConfigRecord(c, l, t) : c \in PersistedFieldValues(ColorSchemeKey),
                                  l \in PersistedFieldValues(LanguageKey),
                                  t \in PersistedFieldValues(ThemeKey)}

\* a read that keeps the provider's value whenever it has one
pushed_existingFirst(persisted, existing) == Coalesce(existing, persisted)

\* part_007:73-75: setX((value) => config.x ?? value)
pushed(persisted, existing) == Coalesce(persisted, existing)

\* the effect is queued unless it already is
Enqueue(queue, effect) ==
  IF \E i \in 1..Len(queue) : queue[i] = effect THEN queue ELSE Append(queue, effect)

\* signals that notify at every call of their setter
notifies_always(old, new) == TRUE

\* part_007:73-75: the setter of a signal notifies the effects that read it
\* only when the value it is given is another one
notifies(old, new) == old # new

\* storage.ts:234, created by createLocalStorageSignal (part_007:58): the
\* signal is written to localStorage
StoreConfig ==
  /\ effectQueue # <<>> /\ Head(effectQueue) = "store"
  /\ configStored' = SetItemText(Serialize("json", configSignal))
  /\ effectQueue' = Tail(effectQueue)
  /\ configOp' = "store"
  /\ UNCHANGED <<configSignal, providers, beforeRead>>
  /\ ConfigFrame

\* part_007:68-78: the read effect
ReadConfig ==
  /\ effectQueue # <<>> /\ Head(effectQueue) = "read"
  /\ beforeRead' = providers
  /\ providers' =
       IF Truthy(configSignal)
       THEN [field \in AppFields |->
               pushed(GetProperty(configSignal, field), providers[field])]
       ELSE providers
  /\ effectQueue' = IF notifies(providers, providers')
                    THEN Enqueue(Tail(effectQueue), "write")
                    ELSE Tail(effectQueue)
  /\ configOp' = "read"
  /\ UNCHANGED <<configSignal, configStored>>
  /\ ConfigFrame

\* part_007:81-87: the write effect
WriteConfig ==
  /\ effectQueue # <<>> /\ Head(effectQueue) = "write"
  /\ configSignal' = ConfigRecord(providers[ColorSchemeKey], providers[LanguageKey],
                                  providers[ThemeKey])
  /\ effectQueue' = Enqueue(Enqueue(Tail(effectQueue), "store"), "read")
  /\ configOp' = "write"
  /\ UNCHANGED <<configStored, providers, beforeRead>>
  /\ ConfigFrame

\* a component sets the value of a provider
SetProvider(field, v) ==
  /\ effectQueue = <<>>
  /\ providers[field] # v
  /\ providers' = [providers EXCEPT ![field] = v]
  /\ effectQueue' = <<"write">>
  /\ configOp' = "set"
  /\ UNCHANGED <<configSignal, configStored, beforeRead>>
  /\ ConfigFrame

ConfigParked ==
  /\ configSignal = Undefined
  /\ configStored = Null
  /\ providers = [field \in AppFields |-> Undefined]
  /\ beforeRead = [field \in AppFields |-> Undefined]
  /\ effectQueue = <<>>
  /\ configOp = "init"

\* what localStorage holds when the signal was created from it: the JSON
\* text of the configuration; nothing or an unparsable text when the signal
\* starts undefined
StoredTextsOf(config) ==
  IF config = Undefined THEN {Null, Str(<<"{">>)}
  ELSE {Str(JsonText(config))}

\* ConfigStorage has rendered: the three effects are queued in the order of
\* their creation
ConfigInit ==
  /\ configSignal \in PersistedConfigs
  /\ configStored \in StoredTextsOf(configSignal)
  /\ providers \in {p \in [AppFields -> UNION {{Undefined, ConfigDefaults[f]} : f \in AppFields}] :
                      \A f \in AppFields : p[f] \in {Undefined, ConfigDefaults[f]}}
  /\ beforeRead = [field \in AppFields |-> Undefined]
  /\ effectQueue = <<"store", "read", "write">>
  /\ configOp = "init"

ConfigNext ==
  \/ StoreConfig
  \/ ReadConfig
  \/ WriteConfig
  \/ \E field \in AppFields : \E v \in AppFieldValues(field) : SetProvider(field, v)

-----------------------------------------------------------------------------
(* The application's fetchers: fetchDictionary and fetchTheme load a module *)
(* with a dynamic import and fall back to the bundled dictionary or theme   *)
(* (AppState.tsx:22-44 and src/unnamed/part_007:26-47)                      *)

MaxImports == 2

\* AppState.tsx:13, part_007:14: import fallbackDictionary from './locales/eo'
fallbackDictionary == Obj(<<<<HelloKey, Str(Saluton)>>>>)

\* AppState.tsx:14, part_007:17: import fallbackTheme from './themes/default'
fallbackTheme == Obj(<<<<HelloNamespace, Obj(<<<<ContentClass, Str(X1)>>>>)>>>>)

\* the modules the bundle has under ./locales and ./themes
LocaleModules ==
  Obj(<<<<Eo, fallbackDictionary>>, <<Vo, Obj(<<<<HelloKey, Str(Glidis)>>>>)>>>>)

ThemeModules ==
  Obj(<<<<DefaultThemeName, fallbackTheme>>,
        <<DarkThemeName, Obj(<<<<HelloNamespace, Obj(<<<<ContentClass, Str(Y1)>>>>)>>>>)>>>>)

\* (await import(path)).default: rejects when the bundle has no such module
\* or the chunk fails to load
importDefault(modules, id, loadFails) ==
  IF loadFails \/ ~HasOwn(modules, id) THEN Throw("ImportError")
  ELSE Return(GetOwn(modules, id))

\* a fetcher without the catch clause
fetchWithFallback_noCatch(imported, fallback) == imported

\* try { return (await import(...)).default } catch { return fallback }
fetchWithFallback(imported, fallback) ==
  IF imported.threw THEN Return(fallback) ELSE imported

\* AppState.tsx:22-28: the dictionary is normalized inside the try block
appFetchDictionary(id, loadFails) ==
  LET imported == importDefault(LocaleModules, id, loadFails) IN
  fetchWithFallback(
    IF imported.threw THEN imported ELSE normalizeDictionary(imported.val),
    normalizeDictionary(fallbackDictionary).val)

\* part_007:26-32 with part_004:210-211: the provider normalizes what the
\* fetcher resolved to
configFetchDictionary(id, loadFails) ==
  LET got == fetchWithFallback(importDefault(LocaleModules, id, loadFails),
                               fallbackDictionary) IN
  IF got.threw THEN got ELSE normalizeDictionary(got.val)

\* AppState.tsx:37-43 and part_007:41-47
fetchTheme(id, loadFails) ==
  fetchWithFallback(importDefault(ThemeModules, id, loadFails), fallbackTheme)

\* what the promise of an import settles with
FetchOutcome(variant, request, loadFails) ==
  IF request[1] = "theme" THEN fetchTheme(request[2], loadFails)
  ELSE IF variant = "AppState" THEN appFetchDictionary(request[2], loadFails)
  ELSE configFetchDictionary(request[2], loadFails)

\* the identifiers the settings ask for; the bundle has no module for "xx"
FetchIdentifiers(kind) ==
  IF kind = "theme" THEN {DefaultThemeName, DarkThemeName, Xx} ELSE {Eo, Vo, Xx}

NothingRendered == [text |-> Return(Undefined), class |-> Return(Undefined)]

\* config.language or config.theme changes: the resource calls its fetcher
StartFetch(kind, id) ==
  /\ Len(imports) < MaxImports
  /\ imports' = Append(imports, <<kind, id>>)
  /\ importing' = importing \cup {Len(imports) + 1}
  /\ IF kind = "theme"
     THEN /\ themeRes' = startLoad(themeRes, Len(imports) + 1)
          /\ UNCHANGED dictionaryRes
     ELSE /\ dictionaryRes' = startLoad(dictionaryRes, Len(imports) + 1)
          /\ UNCHANGED themeRes
  /\ fetchOp' = "fetch"
  /\ UNCHANGED <<fetchVariant, fetched, rendered>>
  /\ FetchFrame

\* the promise of a fetcher call settles
SettleImport(p, loadFails) ==
  LET outcome == FetchOutcome(fetchVariant, imports[p], loadFails) IN
  /\ p \in importing
  /\ importing' = importing \ {p}
  /\ IF imports[p][1] = "theme"
     THEN /\ themeRes' = loadEnd(themeRes, p, outcome)
          /\ UNCHANGED dictionaryRes
     ELSE /\ dictionaryRes' = loadEnd(dictionaryRes, p, outcome)
          /\ UNCHANGED themeRes
  /\ fetched' = fetched \cup {[request |-> imports[p], failed |-> loadFails,
                               outcome |-> outcome]}
  /\ fetchOp' = "settle"
  /\ UNCHANGED <<fetchVariant, imports, rendered>>
  /\ FetchFrame

\* a component renders translate('hello') and styles('content')
RenderWithResources ==
  LET dict == readResource(dictionaryRes)
      th == readResource(themeRes)
  IN /\ rendered' =
          [text |-> IF dict.threw THEN dict ELSE translate(dict.val, HelloKey, Undefined),
           class |-> IF th.threw THEN th
                     ELSE Return(Str(styles(stylesMemo(Undefined, th.val, HelloNamespace),
                                            Str(ContentClass))))]
     /\ fetchOp' = "render"
     /\ UNCHANGED <<fetchVariant, imports, importing, dictionaryRes, themeRes, fetched>>
     /\ FetchFrame

FetchParked ==
  /\ fetchVariant = "AppState"
  /\ imports = <<>>
  /\ importing = {}
  /\ dictionaryRes = NewResource(Undefined)
  /\ themeRes = NewResource(Undefined)
  /\ fetched = {}
  /\ rendered = NothingRendered
  /\ fetchOp = "init"

FetchInit ==
  /\ fetchVariant \in {"AppState", "config"}
  /\ imports = <<>>
  /\ importing = {}
  /\ dictionaryRes = NewResource(Undefined)
  /\ themeRes = NewResource(Undefined)
  /\ fetched = {}
  /\ rendered = NothingRendered
  /\ fetchOp = "init"

FetchNext ==
  \/ \E kind \in {"dictionary", "theme"} : \E id \in FetchIdentifiers(kind) : StartFetch(kind, id)
  \/ \E p \in 1..MaxImports : \E loadFails \in BOOLEAN : SettleImport(p, loadFails)
  \/ RenderWithResources

StorageParked ==
  /\ storage = [k \in StorageKeys |-> Null]
  /\ constructed = FALSE
  /\ value = Undefined
  /\ defaultValue = Undefined
  /\ options = "json"
  /\ readThrew = FALSE
  /\ effectPending = FALSE
  /\ interfered = FALSE
  /\ removed = FALSE
  /\ lastOp = "init"

LocaleNext ==
  \/ LoadDictionary
  \/ ClearDictionary
  \/ \E key \in TranslateKeys : \E params \in TranslateParams : Translate(key, params)

DictionaryNext ==
  \/ LoadDictionary
  \/ ClearDictionary

InitStorage ==
  /\ StorageInit
  /\ LocaleParked
  /\ ColorParked
  /\ HookParked
  /\ ThemeParked
  /\ StylesParked
  /\ ClassesParked
  /\ ResourceParked
  /\ AppParked
  /\ ConfigParked
  /\ FetchParked

InitLocale ==
  /\ LocaleInit
  /\ StorageParked
  /\ ColorParked
  /\ HookParked
  /\ ThemeParked
  /\ StylesParked
  /\ ClassesParked
  /\ ResourceParked
  /\ AppParked
  /\ ConfigParked
  /\ FetchParked

InitDictionary ==
  /\ DictionaryInit
  /\ StorageParked
  /\ ColorParked
  /\ HookParked
  /\ ThemeParked
  /\ StylesParked
  /\ ClassesParked
  /\ ResourceParked
  /\ AppParked
  /\ ConfigParked
  /\ FetchParked

InitColor ==
  /\ ColorInit
  /\ StorageParked
  /\ LocaleParked
  /\ HookParked
  /\ ThemeParked
  /\ StylesParked
  /\ ClassesParked
  /\ ResourceParked
  /\ AppParked
  /\ ConfigParked
  /\ FetchParked

InitHooks ==
  /\ HookInit
  /\ StorageParked
  /\ LocaleParked
  /\ ColorParked
  /\ ThemeParked
  /\ StylesParked
  /\ ClassesParked
  /\ ResourceParked
  /\ AppParked
  /\ ConfigParked
  /\ FetchParked

InitTheme ==
  /\ ThemeInit
  /\ StorageParked
  /\ LocaleParked
  /\ ColorParked
  /\ HookParked
  /\ StylesParked
  /\ ClassesParked
  /\ ResourceParked
  /\ AppParked
  /\ ConfigParked
  /\ FetchParked

InitStyles ==
  /\ StylesInit
  /\ StorageParked
  /\ LocaleParked
  /\ ColorParked
  /\ HookParked
  /\ ThemeParked
  /\ ClassesParked
  /\ ResourceParked
  /\ AppParked
  /\ ConfigParked
  /\ FetchParked

InitClasses ==
  /\ ClassesInit
  /\ StorageParked
  /\ LocaleParked
  /\ ColorParked
  /\ HookParked
  /\ ThemeParked
  /\ StylesParked
  /\ ResourceParked
  /\ AppParked
  /\ ConfigParked
  /\ FetchParked

InitResource ==
  /\ ResourceInit
  /\ StorageParked
  /\ LocaleParked
  /\ ColorParked
  /\ HookParked
  /\ ThemeParked
  /\ StylesParked
  /\ ClassesParked
  /\ AppParked
  /\ ConfigParked
  /\ FetchParked

InitAppState ==
  /\ AppStateInit
  /\ LocaleParked
  /\ ColorParked
  /\ HookParked
  /\ ThemeParked
  /\ StylesParked
  /\ ClassesParked
  /\ ResourceParked
  /\ ConfigParked
  /\ FetchParked

InitConfig ==
  /\ ConfigInit
  /\ StorageParked
  /\ LocaleParked
  /\ ColorParked
  /\ HookParked
  /\ ThemeParked
  /\ StylesParked
  /\ ClassesParked
  /\ ResourceParked
  /\ AppParked
  /\ FetchParked

InitFetch ==
  /\ FetchInit
  /\ StorageParked
  /\ LocaleParked
  /\ ColorParked
  /\ HookParked
  /\ ThemeParked
  /\ StylesParked
  /\ ClassesParked
  /\ ResourceParked
  /\ AppParked
  /\ ConfigParked


SpecStorage == InitStorage /\ [][StorageNext]_vars

SpecLocale == InitLocale /\ [][LocaleNext]_vars

SpecDictionary == InitDictionary /\ [][DictionaryNext]_vars

SpecColor == InitColor /\ [][ColorNext]_vars

SpecHooks == InitHooks /\ [][HookNext]_vars

SpecTheme == InitTheme /\ [][ThemeNext]_vars

SpecStyles == InitStyles /\ [][StylesNext]_vars

SpecClasses == InitClasses /\ [][ClassesNext]_vars

SpecResource == InitResource /\ [][ResourceNext]_vars

SpecAppState == InitAppState /\ [][AppStateNext]_vars

SpecConfig == InitConfig /\ [][ConfigNext]_vars

SpecFetch == InitFetch /\ [][FetchNext]_vars

-----------------------------------------------------------------------------
(* Claims about the storage bridge, checked under SpecStorage *)

\* what storage[key] holds after a write of the value v
WrittenItem(opt, v) == SetItemText(Serialize(opt, v))

\* C1: once the write effect has run, after construction and after any
\* sequence of setter calls, storage[key] is serialize(value) (as setItem
\* stores it); and every setter call that changes the value writes
\* serialize(new value) under the key, whatever the storage held before.
C1_StoreFollowsValue ==
  /\ []((constructed /\ ~effectPending /\ ~interfered)
          => storage[localStorageKey] = WrittenItem(options, value))
  /\ [][(lastOp' = "set" /\ value' # value)
          => (effectPending' \/ storage'[localStorageKey] = WrittenItem(options', value'))]_vars

\* a setter call has changed the value to a record and the storage holds it
C1_Witness ==
  /\ lastOp = "set" /\ ~effectPending /\ ~interfered
  /\ value.t = "obj" /\ value.entries # <<>>
  /\ storage[localStorageKey] = Str(JsonText(value))

\* C2: the initial value is deserialize(storage[key]) when the key is
\* present and deserialization succeeds, and defaultValue when the key is
\* absent or the read or the deserializer throws; the construction never throws.
C2_InitialValueAsClaimed ==
  lastOp \in {"construct", "constructThrew"} =>
    /\ lastOp = "construct"
    /\ value =
         IF readThrew \/ storage[localStorageKey] = Null THEN defaultValue
         ELSE LET d == Deserialize(options, storage[localStorageKey].s) IN
              IF d.threw THEN defaultValue ELSE d.val

\* C3: a JSON-safe value that was written with the default serializer is the
\* initial value of a fresh persistent value on the same storage and key,
\* whatever default the fresh one is given.
C3_RoundTrip ==
  [][(/\ constructed /\ ~effectPending /\ ~interfered
      /\ options = "json" /\ value \in JsonSafeValues
      /\ lastOp' = "construct" /\ options' = "json" /\ ~readThrew')
       => value' = value]_vars

\* a fresh construction got back a value that neither its default nor any
\* foreign text of the storage could have given it
C3_Witness ==
  /\ lastOp = "construct" /\ options = "json" /\ ~readThrew
  /\ value = Arr(<<Num(1), Str(<<"a">>)>>)
  /\ defaultValue # value

\* C4: the remover deletes the key, leaves the in-memory value as it was and
\* touches no other key of the storage.
C4_RemoveFrame ==
  [][lastOp' = "remove" =>
       /\ storage'[localStorageKey] = Null
       /\ value' = value
       /\ \A k \in StorageKeys \ {localStorageKey} : storage'[k] = storage[k]]_vars

\* the key was removed while the value is set and another key is in use
C4_Witness ==
  /\ lastOp = "remove" /\ constructed /\ ~effectPending
  /\ storage[localStorageKey] = Null
  /\ storage[otherKey] # Null
  /\ value \notin {Undefined, defaultValue}

\* C23: the storage is read at the construction only: the write effect, the
\* remover and a change made to the storage by anyone else (the removal of
\* the key included) leave the in-memory value as it is.
C23_ReadOnceAtConstruction ==
  [][(constructed /\ lastOp' \in {"effect", "remove", "foreign"}) => value' = value]_vars

\* another writer stored the text "eo" (JSON) under the key after the
\* construction: the in-memory value is still the number it was
C23_Witness ==
  /\ constructed /\ ~effectPending
  /\ lastOp = "foreign"
  /\ options = "json"
  /\ storage[localStorageKey] = Str(<<"\"", "e", "o", "\"">>)
  /\ value = Num(MaxNum)

\* C27: the write effect queued by the construction writes
\* serialize(initial value) under the key with no setter call: when the key
\* was absent or held a text the deserializer rejects, the key then holds
\* the serialized default.
C27_ConstructionWrites ==
  [][(lastOp = "construct" /\ lastOp' = "effect") =>
       /\ storage'[localStorageKey] = WrittenItem(options, value)
       /\ (\/ storage[localStorageKey] = Null
           \/ Deserialize(options, storage[localStorageKey].s).threw)
            => storage'[localStorageKey] = WrittenItem(options, defaultValue)]_vars

\* no JSON text parses to undefined: the key was absent or unparsable at
\* the construction, the initial value is the default (undefined), and after
\* the write effect the key holds what setItem stores for it
C27_Witness ==
  /\ lastOp = "effect"
  /\ options = "json"
  /\ ~readThrew
  /\ defaultValue = Undefined
  /\ value = Undefined
  /\ ~interfered
  /\ storage[localStorageKey] = WrittenItem("json", Undefined)

-----------------------------------------------------------------------------
(* Claims about the locale provider *)

RECURSIVE LeafSeq(_, _)
\* the leaves of a raw dictionary with their paths, in enumeration order
LeafSeq(es, path) ==
  IF es = <<>> THEN <<>>
  ELSE LET here == Append(path, Head(es)[1])
           val == Head(es)[2]
       IN (IF val.t = "obj" THEN LeafSeq(val.entries, here) ELSE << <<here, val>> >>)
          \o LeafSeq(Tail(es), path)

RECURSIVE JoinPath(_, _)
\* [a, b, c] joined by the separator: a.b.c
JoinPath(path, sep) ==
  IF Len(path) = 1 THEN path[1]
  ELSE path[1] \o sep \o JoinPath(Tail(path), sep)

RawLeavesInOrder == LeafSeq(rawDictionary.entries, <<>>)

\* no later leaf flattens to the key of leaf i
IsLastAtKey(leaves, i, sep) ==
  \A j \in (i + 1)..Len(leaves) :
    JoinPath(leaves[j][1], sep) # JoinPath(leaves[i][1], sep)

\* C5 (checked under SpecLocale): translate(key, params) returns the key
\* itself whenever the dictionary is absent or has no entry for the key.
C5_FallbackIsKey ==
  (/\ localeOp = "translate"
   /\ (IsNullish(dictionary) \/ ~HasOwn(dictionary, translateCall.key)))
    => translateCall.outcome = Return(Str(translateCall.key))

\* C6 (checked under SpecLocale): for a key bound in the dictionary, translate
\* returns exactly what the key's translation function returns for params;
\* an entry that comes from a raw string gives that string for every params.
C6_BoundKeyIsCalled ==
  (/\ localeOp = "translate"
   /\ ~IsNullish(dictionary)
   /\ HasOwn(dictionary, translateCall.key))
    => /\ translateCall.outcome =
            CallFunction(GetOwn(dictionary, translateCall.key), dictionary,
                         translateCall.params)
       /\ \A i \in 1..Len(RawLeavesInOrder) :
            (/\ dictionary = createDictionary(rawDictionary, separator)
             /\ JoinPath(RawLeavesInOrder[i][1], separator) = translateCall.key
             /\ IsLastAtKey(RawLeavesInOrder, i, separator)
             /\ RawLeavesInOrder[i][2].t = "str")
              => translateCall.outcome = Return(RawLeavesInOrder[i][2])

\* the nested key a.b, bound to a function, was translated with { name: 'mondo' }
C6_Witness ==
  /\ localeOp = "translate"
  /\ translateCall.key = KeyAB
  /\ ~IsNullish(dictionary)
  /\ HasOwn(dictionary, KeyAB)
  /\ translateCall.params # Undefined
  /\ translateCall.outcome = Return(Str(Saluton \o <<" ">> \o Mondo))

\* C7 as stated (checked under SpecDictionary): with the default separator
\* every value of the result is a translation function and the leaf at
\* path [a, b, c] is the entry stored under "a.b.c".
C7_LeafStoredAtJoinedPath ==
  (localeOp = "load" /\ separator = DotSeparator) =>
    /\ \A i \in 1..Len(dictionary.entries) : dictionary.entries[i][2].t = "fn"
    /\ \A i \in 1..Len(RawLeavesInOrder) :
         /\ HasOwn(dictionary, JoinPath(RawLeavesInOrder[i][1], DotSeparator))
         /\ GetOwn(dictionary, JoinPath(RawLeavesInOrder[i][1], DotSeparator))
              = createTranslation(RawLeavesInOrder[i][2])

\* C7 as amended: the key "a.b.c" holds the leaf at path [a, b, c] unless a
\* later leaf flattens to the same key; the key then holds the later leaf.
\* The result has no other keys and no object-valued entry.
C7_LastLeafStoredAtJoinedPath ==
  (localeOp = "load" /\ separator = DotSeparator) =>
    /\ \A i \in 1..Len(dictionary.entries) :
         /\ dictionary.entries[i][2].t = "fn"
         /\ \E j \in 1..Len(RawLeavesInOrder) :
              JoinPath(RawLeavesInOrder[j][1], DotSeparator) = dictionary.entries[i][1]
    /\ \A i \in 1..Len(RawLeavesInOrder) :
         /\ HasOwn(dictionary, JoinPath(RawLeavesInOrder[i][1], DotSeparator))
         /\ IsLastAtKey(RawLeavesInOrder, i, DotSeparator)
              => GetOwn(dictionary, JoinPath(RawLeavesInOrder[i][1], DotSeparator))
                   = createTranslation(RawLeavesInOrder[i][2])

\* a dictionary with a leaf three levels down, beside a second entry, was flattened
C7_Witness ==
  /\ localeOp = "load" /\ separator = DotSeparator
  /\ Len(rawDictionary.entries) = 2
  /\ \E i \in 1..Len(RawLeavesInOrder) :
       /\ Len(RawLeavesInOrder[i][1]) = 3
       /\ RawLeavesInOrder[i][2].t = "str"
       /\ GetOwn(dictionary, JoinPath(RawLeavesInOrder[i][1], DotSeparator))
            = ConstFn(RawLeavesInOrder[i][2].s)


-----------------------------------------------------------------------------
(* Claims about the colour-scheme provider, checked under SpecColor *)

\* the scheme the browser prefers, as the provider names it
BrowserPreference ==
  IF browserScheme = "light" THEN Light
  ELSE IF browserScheme = "dark" THEN Dark
  ELSE Undefined

\* C8: while the auto-detecting provider is alive the accessor returns the
\* colorScheme override when one is supplied, otherwise the detected scheme
\* when there is one, otherwise defaultColorScheme. The detected scheme is
\* the browser's preference at render and, once the change events of a
\* preference the browser has are handled, the new preference. With no
\* override, nothing detected and defaultColorScheme = "dark" the accessor
\* returns "dark".
C8_OverrideThenDetectedThenDefault ==
  (phase \in {"rendered", "mounted"}) =>
    /\ ~IsNullish(propColorScheme) => currentColorScheme = propColorScheme
    /\ (IsNullish(propColorScheme) /\ ~IsNullish(colorScheme))
         => currentColorScheme = colorScheme
    /\ (IsNullish(propColorScheme) /\ IsNullish(colorScheme))
         => currentColorScheme = propDefault
    /\ colorOp = "render" => colorScheme = BrowserPreference
    /\ (colorOp = "change" /\ pendingEvents = {} /\ browserScheme # "none")
         => colorScheme = BrowserPreference
    /\ (propColorScheme = Undefined /\ colorScheme = Undefined /\ propDefault = Dark)
         => currentColorScheme = Dark

\* mounted in a browser without a preference, no override, defaultColorScheme
\* "dark": the accessor returns "dark"
C8_Witness ==
  /\ phase = "mounted"
  /\ browserScheme = "none"
  /\ propColorScheme = Undefined
  /\ colorScheme = Undefined
  /\ propDefault = Dark
  /\ currentColorScheme = Dark


\* C20 as stated: the listeners are attached on mount and removed on
\* teardown; between them the detected value is the scheme of whichever
\* notification was received last, and after teardown no notification
\* changes the value.
C20_LastNotificationWins ==
  /\ []((phase = "mounted" /\ lastEvent # NoEvent) => colorScheme = lastEvent.scheme)
  /\ [][phase = "disposed" => colorScheme' = colorScheme]_vars

\* C20 as amended: the listeners are attached on mount and removed on
\* teardown (no notification is delivered before the one or after the
\* other); between them the detected value is the scheme of the last
\* notification that reported a match, a notification reporting that its
\* scheme matches no longer changes nothing, and after teardown no
\* notification changes the value.
C20_LastMatchingNotificationWins ==
  /\ []((phase = "mounted" /\ lastMatched # NoEvent) => colorScheme = lastMatched.scheme)
  /\ []((phase \in {"rendered", "disposed"}) => pendingEvents = {})
  /\ [][(lastEvent' # lastEvent /\ ~lastEvent'.matches) => colorScheme' = colorScheme]_vars
  /\ [][phase = "disposed" => colorScheme' = colorScheme]_vars

\* the provider received "dark matches" and then "light matches no longer"
\* while mounted, was torn down with "dark" detected, and the browser then
\* went to "light": the detected value is still "dark"
C20_Witness ==
  /\ phase = "disposed"
  /\ colorOp = "browser"
  /\ browserScheme = "light"
  /\ lastMatched = [scheme |-> Dark, matches |-> TRUE]
  /\ lastEvent = [scheme |-> Light, matches |-> FALSE]
  /\ colorScheme = Dark


\* C21: while a colorScheme override is supplied, the accessor returns the
\* override: a change notification (or any step that leaves the override as
\* it is) does not change what the accessor returns, and when the parent
\* supplies another override the accessor returns that one.
C21_ControlledFollowsOverrideOnly ==
  /\ [][(/\ phase \in {"rendered", "mounted"}
         /\ phase' \in {"rendered", "mounted"}
         /\ ~IsNullish(propColorScheme)
         /\ propColorScheme' = propColorScheme)
          => currentColorScheme' = currentColorScheme]_vars
  /\ [][(/\ phase \in {"rendered", "mounted"}
         /\ phase' \in {"rendered", "mounted"}
         /\ ~IsNullish(propColorScheme')
         /\ propColorScheme' # propColorScheme)
          => currentColorScheme' = propColorScheme']_vars

\* the override is "light", the browser went to "dark" and the listener set
\* the detected scheme to "dark": the accessor still returns "light"
C21_Witness ==
  /\ phase = "mounted"
  /\ colorOp = "change"
  /\ propColorScheme = Light
  /\ colorScheme = Dark
  /\ currentColorScheme = Light

\* C30: a change notification whose matches flag is false leaves the
\* detected value as it is; when the preference flips and both media queries
\* notify, the detected value is, once both notifications are handled, the
\* scheme whose query now matches, whichever was handled first.
C30_NonMatchingIgnored ==
  /\ [][(colorOp' = "change" /\ ~lastEvent'.matches) => colorScheme' = colorScheme]_vars
  /\ []((/\ phase = "mounted" /\ colorOp = "change" /\ pendingEvents = {}
          /\ browserScheme # "none")
          => (colorScheme = BrowserPreference /\ MediaMatches(browserScheme, colorScheme)))

\* the preference went from light to dark; "dark matches" was handled
\* first and "light matches no longer" last: the detected value is "dark"
C30_Witness ==
  /\ phase = "mounted"
  /\ colorOp = "change"
  /\ pendingEvents = {}
  /\ browserScheme = "dark"
  /\ lastEvent = [scheme |-> Light, matches |-> FALSE]
  /\ lastMatched = [scheme |-> Dark, matches |-> TRUE]
  /\ colorScheme = Dark

-----------------------------------------------------------------------------
(* Claims about the hooks, checked under SpecHooks *)

\* the context each hook needs
ContextOf(hook) ==
  CASE hook = "useColorScheme" -> ColorSchemeContext
    [] hook \in {"useLanguage", "useDictionary", "useTranslate"} -> LocaleContext
    [] hook \in {"useTheme", "useStyles"} -> ThemeContext
    [] hook = "useAppState" -> AppContext

NotFoundMessage(name) ==
  CASE name = ColorSchemeContext -> "ColorSchemeContext not found"
    [] name = LocaleContext -> "LocaleContext not found"
    [] name = ThemeContext -> "ThemeContext not found"
    [] name = AppContext -> "AppContext not found"

\* C9: a hook called with no enclosing provider of its kind throws an error
\* whose message names the missing context and returns no value; inside a
\* provider it throws nothing.
C9_MissingContextThrows ==
  (hookOp = "call" /\ hookCall.hook # "useAppState") =>
    IF contexts[ContextOf(hookCall.hook)] = Undefined
    THEN /\ hookCall.outcome.threw
         /\ hookCall.outcome.val.t = "error"
         /\ hookCall.outcome.val.message = NotFoundMessage(ContextOf(hookCall.hook))
    ELSE ~hookCall.outcome.threw

\* useTranslate was called inside a colour-scheme and a theme provider but
\* outside any locale provider
C9_Witness ==
  /\ hookOp = "call"
  /\ hookCall.hook = "useTranslate"
  /\ contexts[LocaleContext] = Undefined
  /\ contexts[ColorSchemeContext] # Undefined
  /\ contexts[ThemeContext] # Undefined
  /\ hookCall.outcome = Throw("LocaleContext not found")

\* C22: useAppState called outside an AppStateProvider throws an error whose
\* message is "AppContext not found" and returns no state object.
C22_MissingAppContextThrows ==
  (/\ hookOp = "call"
   /\ hookCall.hook = "useAppState"
   /\ contexts[AppContext] = Undefined)
    => hookCall.outcome = Throw("AppContext not found")

-----------------------------------------------------------------------------
(* Claims about mergeStyles, checked under SpecTheme *)

\* the class names the maps of the list give to a key, in list order
RECURSIVE ValuesAt(_, _)
ValuesAt(list, key) ==
  IF list = <<>> THEN <<>>
  ELSE (IF HasOwn(Head(list), key) THEN <<GetOwn(Head(list), key)>> ELSE <<>>)
         \o ValuesAt(Tail(list), key)

\* C10 as stated: mergeStyles(list) has exactly the keys that occur in some
\* map of the list, each bound to the class names of the maps that contain
\* it, in list order, joined by one space with nothing before or after; a
\* key of one map only keeps its class name unchanged, and
\* mergeStyles([{a: "x"}, {a: "y", b: "z"}]) = {a: "x y", b: "z"}.
C10_MergedIsSpaceJoined ==
  (themeOp = "merge") =>
    /\ \A key \in {KeyA, KeyB} :
         /\ HasOwn(mergedStyles, key) <=> ValuesAt(stylesList, key) # <<>>
         /\ ValuesAt(stylesList, key) # <<>>
              => GetOwn(mergedStyles, key) = Str(Join(ValuesAt(stylesList, key), <<" ">>))
         /\ Len(ValuesAt(stylesList, key)) = 1
              => GetOwn(mergedStyles, key) = ValuesAt(stylesList, key)[1]
    /\ stylesList = <<Obj(<<<<KeyA, Str(<<"x">>)>>>>),
                      Obj(<<<<KeyA, Str(<<"y">>)>>, <<KeyB, Str(<<"z">>)>>>>)>>
         => mergedStyles = Obj(<<<<KeyA, Str(<<"x", " ", "y">>)>>,
                                 <<KeyB, Str(<<"z">>)>>>>)


-----------------------------------------------------------------------------
(* Claims about useStyles, checked under SpecStyles *)

\* C11 as stated: for a class name that both the default styles and the
\* theme's styles of the namespace map, the styling function returns the
\* default class, one space, the theme class; with theme
\* {Hello: {content: "x1"}} and defaultStyles {content: "d1"},
\* styles("content") returns "d1 x1".
C11_DefaultThenTheme ==
  (/\ stylesOp = "styles"
   /\ styleClasses = Str(ContentClass)
   /\ ~IsNullish(defaultStyles) /\ HasOwn(defaultStyles, ContentClass)
   /\ ~IsNullish(theme) /\ HasOwn(theme, HelloNamespace)
   /\ HasOwn(GetOwn(theme, HelloNamespace), ContentClass))
    => /\ styled = GetOwn(defaultStyles, ContentClass).s \o <<" ">>
                     \o GetOwn(GetOwn(theme, HelloNamespace), ContentClass).s
       /\ (/\ theme = Obj(<<<<HelloNamespace, Obj(<<<<ContentClass, Str(X1)>>>>)>>>>)
           /\ defaultStyles = Obj(<<<<ContentClass, Str(D1)>>>>))
            => styled = <<"d", "1", " ", "x", "1">>


-----------------------------------------------------------------------------
(* Claims about normalizeClasses, checked under SpecClasses *)

\* the white-space-delimited words of a text, from left to right
WordStarts(text) ==
  {i \in 1..Len(text) :
     text[i] \notin WhiteSpace /\ (i = 1 \/ text[i - 1] \in WhiteSpace)}

WordEnd(text, i) ==
  CHOOSE j \in i..Len(text) :
    /\ \A k \in i..j : text[k] \notin WhiteSpace
    /\ (j = Len(text) \/ text[j + 1] \in WhiteSpace)

RECURSIVE WordsFrom(_, _)
WordsFrom(text, i) ==
  IF i > Len(text) THEN <<>>
  ELSE IF i \in WordStarts(text)
       THEN <<SubSeq(text, i, WordEnd(text, i))>> \o WordsFrom(text, WordEnd(text, i) + 1)
       ELSE WordsFrom(text, i + 1)

\* every class-name token a Classes value contributes, in order of occurrence:
\* the words of a string, the tokens of the items of a list, the words of
\* the keys of a map whose value is truthy, nothing for an absent value
RECURSIVE TokenStream(_), TokenStreamOfItems(_), TokenStreamOfEntries(_)
TokenStream(c) ==
  CASE c.t = "str" -> WordsFrom(c.s, 1)
    [] c.t = "arr" -> TokenStreamOfItems(c.items)
    [] c.t = "obj" -> TokenStreamOfEntries(c.entries)
    [] OTHER -> <<>>

TokenStreamOfItems(items) ==
  IF items = <<>> THEN <<>>
  ELSE TokenStream(Head(items)) \o TokenStreamOfItems(Tail(items))

TokenStreamOfEntries(es) ==
  IF es = <<>> THEN <<>>
  ELSE (IF Truthy(Head(es)[2]) THEN WordsFrom(Head(es)[1], 1) ELSE <<>>)
         \o TokenStreamOfEntries(Tail(es))

FirstIndex(stream, token) ==
  CHOOSE i \in 1..Len(stream) :
    stream[i] = token /\ \A j \in 1..(i - 1) : stream[j] # token

\* the result lists every token of the stream once, in first-occurrence
\* order, and every token is a non-empty word
IsNormalFormOf(result, c) ==
  LET stream == TokenStream(c) IN
  /\ \A i \in 1..Len(result) :
       /\ result[i] # <<>>
       /\ \A k \in 1..Len(result[i]) : result[i][k] \notin WhiteSpace
  /\ \A i \in 1..Len(result) : \A j \in 1..Len(result) :
       i # j => result[i] # result[j]
  /\ {result[i] : i \in 1..Len(result)} = {stream[i] : i \in 1..Len(stream)}
  /\ \A i \in 1..Len(result) : \A j \in 1..Len(result) :
       i < j => FirstIndex(stream, result[i]) < FirstIndex(stream, result[j])

\* C12: for every Classes input (string, list, boolean map, absent) both
\* versions of normalizeClasses return the non-empty class-name tokens of the
\* input without duplicates, in first-occurrence order; falsy map entries,
\* absent list items and empty tokens contribute nothing; {a: true, b: false}
\* gives ["a"], undefined gives [], "a b a" gives ["a", "b"].
C12_NormalizedTokens ==
  (classesOp \in {"normalize", "renormalize"}) =>
    /\ IsNormalFormOf(normalized, classesInput)
    /\ IsNormalFormOf(normalized2, classesInput)
    /\ classesInput = Obj(<<<<<<"a">>, Bool(TRUE)>>, <<<<"b">>, Bool(FALSE)>>>>)
         => normalized = <<<<"a">>>> /\ normalized2 = <<<<"a">>>>
    /\ classesInput = Undefined => normalized = <<>> /\ normalized2 = <<>>
    /\ classesInput = Str(ABA)
         => normalized = <<<<"a">>, <<"b">>>> /\ normalized2 = <<<<"a">>, <<"b">>>>

\* "a b a" was normalized to ["a", "b"] by both versions
C12_Witness ==
  /\ classesOp = "normalize"
  /\ classesInput = Str(ABA)
  /\ normalized = <<<<"a">>, <<"b">>>>
  /\ normalized2 = <<<<"a">>, <<"b">>>>

\* C17: normalizing the joined output of normalizeClasses gives the same
\* tokens: normalizeClasses(normalizeClasses(x).join(' ')) and
\* normalizeClasses(x) are equal as sets, for both versions.
C17_Idempotent ==
  (classesOp = "renormalize") =>
    /\ {renormalized[i] : i \in 1..Len(renormalized)}
         = {normalized[i] : i \in 1..Len(normalized)}
    /\ {renormalized2[i] : i \in 1..Len(renormalized2)}
         = {normalized2[i] : i \in 1..Len(normalized2)}

\* a map whose key "a b" is true was normalized to two tokens, joined and
\* normalized again
C17_Witness ==
  /\ classesOp = "renormalize"
  /\ classesInput = Obj(<<<<<<"a", " ", "b">>, Bool(TRUE)>>>>)
  /\ normalized = <<<<"a">>, <<"b">>>>
  /\ renormalized = <<<<"a">>, <<"b">>>>
  /\ renormalized2 = <<<<"a">>, <<"b">>>>


\* the inputs the second normalizeClasses is typed for (theme.tsx:255):
\* a string, a map, an absent value, or a list of those
IsListItem(c) == c.t \in {"undefined", "str", "obj"}

IsRestrictedInput(c) ==
  \/ IsListItem(c)
  \/ (c.t = "arr" /\ \A i \in 1..Len(c.items) : IsListItem(c.items[i]))

\* C29 (checked under SpecClasses): for every input the second
\* normalizeClasses is typed for, the two implementations return the same
\* list of tokens.
C29_SameTokens ==
  (classesOp = "normalize" /\ IsRestrictedInput(classesInput))
    => normalized = normalized2

\* a list with a string of two class names, an absent item and a map: both
\* implementations give b, a
C29_Witness ==
  /\ classesOp = "normalize"
  /\ classesInput = Arr(<<Str(<<"b", " ", "a">>),
                         Obj(<<<<<<"a">>, Bool(FALSE)>>, <<<<"b">>, Bool(TRUE)>>>>)>>)
  /\ normalized = <<<<"b">>, <<"a">>>>
  /\ normalized2 = <<<<"b">>, <<"a">>>>

UndefinedText == <<"u", "n", "d", "e", "f", "i", "n", "e", "d">>

ContainsText(text, part) ==
  \E i \in 1..(Len(text) - Len(part) + 1) : SubSeq(text, i, i + Len(part) - 1) = part

\* C16 as stated (checked under SpecStyles): the string the styling function
\* returns never contains the literal "undefined", and its tokens are
\* separated by exactly one space: a class name without an entry in the
\* merged styles contributes nothing, so the string has no leading, trailing
\* or doubled space.
C16_NoUndefinedSingleSpaced ==
  (stylesOp = "styles") =>
    /\ ~ContainsText(styled, UndefinedText)
    /\ styled # <<>> => (styled[1] # " " /\ styled[Len(styled)] # " ")
    /\ \A i \in 1..(Len(styled) - 1) : ~(styled[i] = " " /\ styled[i + 1] = " ")


\* the class names a styles map gives to a class, none when the map is
\* absent or has no entry for it
ClassesAt(map, name) ==
  IF IsNullish(map) \/ map.t # "obj" THEN <<>>
  ELSE IF HasOwn(map, name) THEN WordsFrom(GetOwn(map, name).s, 1)
  ELSE <<>>

\* the styles a theme has for the namespace, undefined when it has none
NamespaceOf(th) ==
  IF IsNullish(th) \/ ~HasOwn(th, HelloNamespace) THEN Undefined
  ELSE GetOwn(th, HelloNamespace)

RECURSIVE ExpectedClasses(_, _, _)
\* for every requested class, in order: its default class names, then the
\* class names the theme gives it
ExpectedClasses(dflt, th, names) ==
  IF names = <<>> THEN <<>>
  ELSE ClassesAt(dflt, Head(names)) \o ClassesAt(NamespaceOf(th), Head(names))
         \o ExpectedClasses(dflt, th, Tail(names))

SeqRange(xs) == {xs[i] : i \in 1..Len(xs)}

\* C24 (checked under SpecStyles): after the theme of the provider has
\* changed, a call of the styling function obtained before the change
\* returns, for every input, the default class names and the class names of
\* the new theme, and no class name that only the previous theme gave.
C24_StylesFollowTheme ==
  (stylesOp = "styles" /\ previousTheme # Null) =>
    LET names == normalizeClasses(styleClasses)
        expected == ExpectedClasses(defaultStyles, theme, names)
        before == ExpectedClasses(Undefined, previousTheme, names)
    IN /\ WordsFrom(styled, 1) = expected
       /\ \A c \in SeqRange(before) \ SeqRange(expected) : c \notin SeqRange(WordsFrom(styled, 1))

\* the theme went from {Hello: {content: "x1"}} to {Hello: {content: "y1"}}
\* with defaultStyles {content: "d1"}: styles("content") now gives d1 and y1
C24_Witness ==
  /\ stylesOp = "styles"
  /\ previousTheme = Obj(<<<<HelloNamespace, Obj(<<<<ContentClass, Str(X1)>>>>)>>>>)
  /\ theme = Obj(<<<<HelloNamespace, Obj(<<<<ContentClass, Str(Y1)>>>>)>>>>)
  /\ defaultStyles = Obj(<<<<ContentClass, Str(D1)>>>>)
  /\ styleClasses = Str(ContentClass)
  /\ WordsFrom(styled, 1) = <<D1, Y1>>

-----------------------------------------------------------------------------
(* Claims about the asynchronous LocaleProvider, checked under SpecResource *)

\* the fetch started last, 0 before the first
LatestFetch == Len(requests)

\* the outcome the fetch p settled with
OutcomeOf(p) == (CHOOSE pair \in settled : pair[1] = p)[2]

\* the fetch that settles in this step
Settling(p) == p \in inflight /\ p \notin inflight'

\* C13: last requested wins.  While the language is set, once the fetch for
\* the most recently requested code has settled with a dictionary the
\* resource holds that dictionary, the normalized locale of the current
\* language, whatever the order in which the fetches settle; and a fetch
\* that was overtaken by a newer request changes nothing when it settles.
C13_LastRequestedWins ==
  /\ [](\A p \in 1..MaxFetches :
          (/\ ~IsNullish(language)
           /\ p = LatestFetch
           /\ \E pair \in settled : pair[1] = p /\ ~pair[2].threw)
            => /\ requests[p] = language
               /\ resource.value = OutcomeOf(p).val
               /\ resource.value = createDictionary(fetchDictionary(language), DotSeparator)
               /\ readResource(resource) = Return(resource.value))
  /\ [][\A p \in 1..MaxFetches :
          (Settling(p) /\ p # LatestFetch) => resource' = resource]_vars

\* vo was requested while the fetch for eo was in flight; both fetches have
\* settled with a dictionary and the resource holds the dictionary of vo
C13_Witness ==
  /\ resourceOp = "settle"
  /\ requests = <<Str(Eo), Str(Vo)>>
  /\ language = Str(Vo)
  /\ inflight = {}
  /\ resource.value = Obj(<<<<HelloKey, ConstFn(Glidis)>>>>)
  /\ \E pair \in settled : pair[1] = 1 /\ ~pair[2].threw

\* C14: while a fetch is pending the provider keeps exposing the previous
\* dictionary: a language change leaves the value of the resource as it
\* was and reading it does not fail while the fetch is pending, a step
\* changes the value only by installing the dictionary of a fetch that
\* settles, and before any fetch has settled the value is the normalized
\* initialDictionary the provider was rendered with.
C14_KeepsDictionaryWhilePending ==
  /\ [][/\ resourceOp' = "language" => resource'.value = resource.value
        /\ (resourceOp # "init" /\ resourceOp' # "settle")
             => resource'.value = resource.value
        /\ (resourceOp # "init" /\ resource'.value # resource.value)
             => \E p \in 1..MaxFetches :
                  /\ Settling(p)
                  /\ ~loadDictionary(requests[p], FALSE).threw
                  /\ resource'.value = loadDictionary(requests[p], FALSE).val]_vars
  /\ [](resource.pr # NoPromise => readResource(resource) = Return(resource.value))
  /\ [](resourceOp = "render" =>
          resource.value \in {initialValue(d) : d \in InitialDictionaries})

\* rendered with the dictionary of eo, then the language was changed to vo:
\* the fetch is pending and the provider still exposes the dictionary of eo
C14_Witness ==
  /\ resourceOp = "language"
  /\ language = Str(Vo)
  /\ resource.pr # NoPromise
  /\ settled = {}
  /\ readResource(resource) = Return(Obj(<<<<HelloKey, ConstFn(Saluton)>>>>))


-----------------------------------------------------------------------------
(* Claims about the app state, checked under SpecAppState *)

\* C15: a setter call gives its field the assigned value and leaves the
\* other fields of the config record as they were, no other step changes
\* the record, so every field holds the value last assigned to it or its
\* initial value; and once the write effect has run the text stored under
\* 'config' is the JSON of the current record.
C15_SetterChangesOwnField ==
  /\ [][/\ lastOp' = "setConfig" =>
             /\ GetProperty(value', lastAssigned'.field) = lastAssigned'.value
             /\ \A field \in AppFields \ {lastAssigned'.field} :
                  GetProperty(value', field) = GetProperty(value, field)
        /\ (constructed /\ lastOp' # "setConfig") => value' = value]_vars
  /\ []((constructed /\ ~effectPending) =>
          storage[localStorageKey] = JsonStringify(value))
  /\ []((constructed /\ ~effectPending) =>
          JsonParse(storage[localStorageKey].s).val
            = Obj(SelectSeq(value.entries, LAMBDA en : en[2] # Undefined)))

\* the language, then the colour scheme were set: the theme is the default
\* and the three fields are persisted
C15_Witness ==
  /\ lastOp = "setConfig"
  /\ lastAssigned = [field |-> ColorSchemeKey, value |-> Dark]
  /\ value = Obj(<< <<ColorSchemeKey, Dark>>, <<LanguageKey, Str(Vo)>>,
                    <<ThemeKey, Str(DefaultThemeName)>> >>)
  /\ storage[localStorageKey] = JsonStringify(value)


-----------------------------------------------------------------------------
(* The separator argument of createDictionary, checked under SpecDictionary *)

\* C18 as stated: for every separator s, createDictionary(raw, s) stores the
\* leaf at path [a, b, c] under a + s + b + s + c, at every nesting level
\* (a leaf whose key a later leaf also flattens to is left aside).
C18_SeparatorAtEveryLevel ==
  (localeOp = "load") =>
    \A i \in 1..Len(RawLeavesInOrder) :
      IsLastAtKey(RawLeavesInOrder, i, separator)
        => /\ HasOwn(dictionary, JoinPath(RawLeavesInOrder[i][1], separator))
           /\ GetOwn(dictionary, JoinPath(RawLeavesInOrder[i][1], separator))
                = createTranslation(RawLeavesInOrder[i][2])


-----------------------------------------------------------------------------
(* Claims about ConfigStorage, checked under SpecConfig *)

\* C19 as stated: the read effect pushes a persisted field into a provider
\* only where the provider's existing value is undefined; a value the
\* provider already has is never overridden by the persisted one.
C19_PersistedNeverOverrides ==
  (configOp = "read") =>
    \A field \in AppFields :
      beforeRead[field] # Undefined => providers[field] = beforeRead[field]

\* C19 as amended: the read effect gives a provider the persisted field
\* whenever that field is neither undefined nor null, whatever value the
\* provider had; the provider keeps its value only where the persisted
\* field is absent, and everywhere when nothing is persisted.
C19_PersistedOverridesUnlessAbsent ==
  (configOp = "read") =>
    \A field \in AppFields :
      providers[field] =
        IF configSignal = Undefined THEN beforeRead[field]
        ELSE IF GetProperty(configSignal, field) \in {Undefined, Null}
        THEN beforeRead[field]
        ELSE GetProperty(configSignal, field)

\* the provider had the colour scheme "dark", the persisted configuration
\* says "light" and no language: after the read effect the colour scheme is
\* "light" and the language is still "eo"
C19_Witness ==
  /\ configOp = "read"
  /\ beforeRead[ColorSchemeKey] = Dark
  /\ beforeRead[LanguageKey] = Str(Eo)
  /\ configSignal # Undefined
  /\ GetProperty(configSignal, ColorSchemeKey) = Light
  /\ GetProperty(configSignal, LanguageKey) = Undefined
  /\ providers[ColorSchemeKey] = Light
  /\ providers[LanguageKey] = Str(Eo)


\* the effects run as long as one is queued
SpecConfigFair ==
  /\ InitConfig
  /\ [][ConfigNext]_vars
  /\ WF_vars(StoreConfig)
  /\ WF_vars(ReadConfig)
  /\ WF_vars(WriteConfig)

\* C26 (checked under SpecConfigFair): after the mount and after every call
\* of a provider's setter the read and write effects stop triggering each
\* other: the queue of effects empties, and whenever it is empty the text
\* stored under the key is the JSON text of {colorScheme, language, theme}
\* of the providers.
C26_EffectsReachQuiescence ==
  /\ (effectQueue # <<>>) ~> (effectQueue = <<>>)
  /\ [](effectQueue = <<>> =>
          /\ configSignal = ConfigRecord(providers[ColorSchemeKey], providers[LanguageKey],
                                         providers[ThemeKey])
          /\ configStored = Str(JsonText(configSignal)))

\* the effects have run (after the mount, or after a setter call) and the
\* queue is empty: the providers hold "dark" and "vo", and the text under
\* the key parses to a record with the language "vo"
C26_Witness ==
  /\ effectQueue = <<>>
  /\ configOp = "read"
  /\ providers[LanguageKey] = Str(Vo)
  /\ providers[ColorSchemeKey] = Dark
  /\ beforeRead[LanguageKey] = Str(Vo)
  /\ GetProperty(JsonParse(configStored.s).val, LanguageKey) = Str(Vo)

-----------------------------------------------------------------------------
(* Claims about the application's fetchers, checked under SpecFetch *)

\* C25: a fetcher call never rejects: when the import of the requested
\* module fails it resolves to the fallback dictionary (eo) or the fallback
\* theme (default); the resources therefore never hold an error, and
\* translate and styles return a value at every render.
C25_FetchersNeverReject ==
  /\ \A f \in fetched :
       /\ ~f.outcome.threw
       /\ (f.failed \/ f.request[2] = Xx) =>
            f.outcome.val = IF f.request[1] = "theme" THEN fallbackTheme
                            ELSE createDictionary(fallbackDictionary, DotSeparator)
  /\ dictionaryRes.error = Undefined
  /\ themeRes.error = Undefined
  /\ ~rendered.text.threw
  /\ ~rendered.class.threw

\* the import of the locale "xx" failed and the dictionary resource holds
\* the fallback dictionary: translate('hello') gives "saluton"
C25_Witness ==
  /\ fetchOp = "render"
  /\ \E f \in fetched : f.request = <<"dictionary", Xx>>
  /\ \E f \in fetched : f.request[1] = "theme" /\ f.failed
  /\ dictionaryRes.value = createDictionary(fallbackDictionary, DotSeparator)
  /\ themeRes.value = fallbackTheme
  /\ rendered.text = Return(Str(Saluton))

=============================================================================
